---- MODULE Spec2Model ----
(***************************************************************************)
(* A model of the orchestration core of codesurvey:                        *)
(*   codesurvey/core.py      CodeSurveyRunner (feed, scheduler, tracker)   *)
(*   codesurvey/database.py  Database (completion store)                   *)
(* One coordinating control flow (the run loop) and a pool of workers      *)
(* that finish deferred jobs.  Of the progress bars the model keeps which  *)
(* ones exist; logging is left out.                                        *)
(***************************************************************************)
EXTENDS Integers, Sequences, FiniteSets, TLC

(***************************************************************************)
(* Bounds of the model.                                                    *)
(***************************************************************************)
\* how many times run() is called against the same store
MaxRuns == 2
\* how many deferred jobs may raise in a worker during one run
MaxFailures == 1
\* how many items a source yields at most
MaxScriptLen == 2
\* Longest list of sources, of analyzers and of feature finders a survey is
\* constructed from
MaxNames == 2
\* Longest list given to get_duplicates
MaxItems == 4
\* The most statements of the coordinator a KeyboardInterrupt lets pass
\* before it is raised, counted from the start of a step
MaxInterruptAt == 24

(***************************************************************************)
(* Markers.                                                                *)
(***************************************************************************)
\* occurrence_count IS NULL: the unit was skipped (Feature.ignore)
NULL == -1
\* max_repos / max_codes is None
NoCap == -1

(***************************************************************************)
(* The survey under test: two sources, two analyzers.                      *)
(***************************************************************************)
SourceNames == <<"s1", "s2">>
AnalyzerNames == <<"a1", "a2">>
SourceSet == {SourceNames[i] : i \in 1..Len(SourceNames)}
AnalyzerSet == {AnalyzerNames[i] : i \in 1..Len(AnalyzerNames)}

\* The unit keys (files) an analyzer finds in the repository with this key.
UnitKeys(key) == IF key = "r1" THEN <<"u1", "u2">> ELSE <<"u1">>

\* strategies that all yield CodeThunks
StreamKind_AllThunk(an) == "thunk"

\* What an analyzer's code_generator yields per unit: a1 is a FileAnalyzer
\* (CodeThunks), a2 analyses inline and yields Codes.
StreamKind(an) == IF an = "a1" THEN "thunk" ELSE "code"

\* The Feature a feature finder returns for a unit: NULL when it ignores the
\* unit, else the number of occurrences.  Analysis is a function of the code.
Outcome(key, an, unit, feat) ==
    IF an = "a1"
    THEN IF feat = "g"
         THEN (IF key = "r1" THEN NULL ELSE 0)
         ELSE (IF key = "r1" THEN (IF unit = "u1" THEN 2 ELSE 0) ELSE 1)
    ELSE IF key = "r1" THEN (IF unit = "u1" THEN 0 ELSE 1) ELSE 2

\* Feature names per analyzer (CodeSurvey.analyzer_features); a2's feature is
\* named either like a1's first feature or differently.
AnalyzerFeatureChoices ==
    { [a1 |-> <<"f", "g">>, a2 |-> <<"f">>],
      [a1 |-> <<"f", "g">>, a2 |-> <<"h">>] }

\* What the sources yield, in order: a Repo, a RepoThunk, or an error raised
\* by next().  uniq: the handle carries a path/cleanup of its own, so it
\* equals no other handle.
Item(kind, key, uniq) == [kind |-> kind, key |-> key, uniq |-> uniq]
ScriptChoices ==
    { [s1 |-> <<Item("repo", "r1", TRUE), Item("thunk", "r2", TRUE)>>,
       s2 |-> <<Item("thunk", "r1", TRUE), Item("repo", "r2", TRUE)>>] }

\* Providers that yield a key twice, that yield only RepoThunks, that raise
\* on a turn, or that yield nothing
AltScriptChoices ==
    { [s1 |-> <<Item("repo", "r2", TRUE), Item("repo", "r2", TRUE)>>,
       s2 |-> <<>>],
      [s1 |-> <<Item("repo", "r1", TRUE), Item("repo", "r1", TRUE)>>,
       s2 |-> <<>>],
      [s1 |-> <<Item("thunk", "r2", TRUE), Item("thunk", "r1", TRUE)>>,
       s2 |-> <<Item("thunk", "r1", TRUE), Item("raise", "-", TRUE)>>] }

\* What one next() of a provider's iterator can do: yield a Repo, yield a
\* RepoThunk, or raise
FeedItems ==
    {Item("repo", "r1", TRUE), Item("thunk", "r2", TRUE), Item("raise", "-", TRUE)}

\* A strategy whose code_generator raises: kind "call" when code_generator()
\* is called (an ordinary function that raises), kind "iter" when the stream
\* it returned is advanced to its at-th unit (a generator function, as
\* FileAnalyzer.code_generator is); NoFault for strategies that do not raise
NoFault == [kind |-> "none", an |-> "-", at |-> 0]
StreamFaults ==
    {[kind |-> "call", an |-> an, at |-> 0] : an \in AnalyzerSet}
    \cup {[kind |-> "iter", an |-> an, at |-> i] : an \in AnalyzerSet, i \in 1..2}

\* The arguments a survey with these analyzer_features was constructed from:
\* one Source per name of SourceNames, one Analyzer per name, with one
\* FeatureFinder per feature name
ArgsOf(af) ==
    [sources |-> SourceNames,
     analyzers |-> LET names == SelectSeq(AnalyzerNames, LAMBDA an : an \in DOMAIN af)
                   IN  [j \in 1..Len(names) |->
                          [name |-> names[j], feature_finders |-> af[names[j]]]]]

\* no query or helper is being called
NoCall == [fn |-> "none"]

\* Every sequence of at most n feed items
SeqsUpTo(n) == UNION {[1..k -> FeedItems] : k \in 0..n}

VARIABLES
    \* ---- survey configuration (CodeSurvey.__init__, run arguments)
    script,                 \* what each source's repo_generator yields
    analyzer_features,      \* self.analyzer_features
    max_workers,
    continue_on_failure,
    save_code_features,
    use_saved_features,
    max_repos,
    max_codes,
    stream_fault,           \* where a strategy's code_generator raises, if at all
    survey_args,            \* the arguments CodeSurvey(...) was constructed from
    call,                   \* a call of a query or helper: its arguments and result
    db_filepath,            \* db_filepath of the CodeSurvey
    pbars,                  \* self.pbars: the (analyzer, feature) pairs with a bar
    \* ---- runner state (CodeSurveyRunner.run)
    pc,                     \* position of the coordinator in run(), or how
                            \* run() was left: "stopped" (it returned),
                            \* "raised" (an error left it), "interrupted"
                            \* (KeyboardInterrupt raised in the loop left it),
                            \* "aborted" (KeyboardInterrupt raised outside
                            \* the try statement left it: before the
                            \* statement, or in its finally block)
    feed,                   \* state of the generator get_repo_generator()
    future_to_job,          \* future -> Job
    future_state,           \* future -> "pending" | "ok" | "fail" | "cancelled"
    done,                   \* the set wait() returned: the current batch
    called,                 \* futures of the batch whose callback has run
    current_repos,          \* list of repo handles under analysis
    completed_repo_count,
    completed_code_count,
    \* ---- the store (Database)
    code_feature,           \* table code_feature
    repo_feature,           \* table repo_feature
    repo_metadata,          \* table repo_metadata
    db_open,
    \* ---- observation
    cleanup_calls,          \* handle -> number of times repo.cleanup() ran
    created,                \* handles the providers created in this run
    obs,                    \* counters of this run (see ObsInit)
    run_no,                 \* number of the current run, from 1
    fail_budget,            \* how many jobs the workers may fail per run
    failures_left

cfgvars == <<script, analyzer_features, max_workers, continue_on_failure,
             save_code_features, use_saved_features, max_repos, max_codes,
             stream_fault, survey_args, call, db_filepath, pbars>>
runvars == <<pc, feed, future_to_job, future_state, done, called, current_repos,
             completed_repo_count, completed_code_count>>
dbvars == <<code_feature, repo_feature, repo_metadata, db_open>>
obsvars == <<cleanup_calls, created, obs, run_no, fail_budget, failures_left>>
vars == <<cfgvars, runvars, dbvars, obsvars>>

(***************************************************************************)
(* The completion store: codesurvey/database.py.                           *)
(* A table is the set of its rows; a row is a record of its columns (the   *)
(* column "updated" is left out: the model keeps no clock).                *)
(***************************************************************************)
\* SQLite's scalar MAX(X, Y)
ScalarMax(x, y) == IF x >= y THEN x ELSE y

RECURSIVE SumCount(_)
\* SUM(occurrence_count) over a set of rows
SumCount(rows) ==
    IF rows = {} THEN 0
    ELSE LET r == CHOOSE x \in rows : TRUE
         IN  r.cnt + SumCount(rows \ {r})

RECURSIVE SumMaxCount1(_)
\* SUM(MAX(occurrence_count, 1)) over a set of rows
SumMaxCount1(rows) ==
    IF rows = {} THEN 0
    ELSE LET r == CHOOSE x \in rows : TRUE
         IN  ScalarMax(r.cnt, 1) + SumMaxCount1(rows \ {r})

CodePk(r) == <<r.src, r.key, r.an, r.unit, r.feat>>
RepoPk(r) == <<r.src, r.key, r.an, r.feat>>

\* INSERT ... ON CONFLICT (primary key) DO UPDATE SET <preserved columns> =
\* EXCLUDED.<...>: a new row replaces the stored row of the same key.
UpsertCode(table, new) ==
    {r \in table : \A n \in new : CodePk(n) # CodePk(r)} \cup new

UpsertRepo(table, new) ==
    {r \in table : \A n \in new : RepoPk(n) # RepoPk(r)} \cup new

\* the query that reports every requested feature missing
get_repo_missing_all(rf, source_name, repo_key, afs) == afs

\* the query that looks at the records of every repository of the source
get_repo_missing_any_repo(rf, source_name, repo_key, afs) ==
    LET existing(an) == {r.feat : r \in {x \in rf : /\ x.src = source_name
                                                   /\ x.an = an}}
        missing(an) == SelectSeq(afs[an], LAMBDA ft : ft \notin existing(an))
    IN  [an \in {a \in DOMAIN afs : Len(missing(a)) > 0} |-> missing(an)]

\* Database.get_repo_missing_analyzer_features
get_repo_missing_analyzer_features(rf, source_name, repo_key, afs) ==
    LET existing(an) == {r.feat : r \in {x \in rf : /\ x.src = source_name
                                                   /\ x.key = repo_key
                                                   /\ x.an \in DOMAIN afs
                                                   /\ x.an = an}}
        missing(an) == SelectSeq(afs[an], LAMBDA ft : ft \notin existing(an))
    IN  [an \in {a \in DOMAIN afs : Len(missing(a)) > 0} |-> missing(an)]

\* Database.get_code_missing_features
get_code_missing_features(cf, source_name, repo_key, code_key, analyzer_name, features) ==
    LET existing == {r.feat : r \in {x \in cf : /\ x.src = source_name
                                                /\ x.key = repo_key
                                                /\ x.an = analyzer_name
                                                /\ x.unit = code_key}}
    IN  SelectSeq(features, LAMBDA ft : ft \notin existing)

\* Database.save_repo_metadata; every repo carries the metadata {"stars": 1}
save_repo_metadata(md, source_name, repo_key) ==
    md \cup {[src |-> source_name, key |-> repo_key, mkey |-> "stars"]}

\* Database.save_code_features: one row per feature of the Code
db_save_code_features(cf, code) ==
    UpsertCode(cf,
           { [src |-> code.src, key |-> code.key, an |-> code.an,
              unit |-> code.unit, feat |-> code.feats[i],
              cnt |-> Outcome(code.key, code.an, code.unit, code.feats[i])]
             : i \in 1..Len(code.feats) })

\* the aggregate query without its filter on occurrence_count
CountedRows_All(cf, source_name, repo_key) ==
    {r \in cf : r.src = source_name /\ r.key = repo_key}

\* The rows of one repository that the aggregate query reads: WHERE
\* source_name = ... AND repo_key = ... AND occurrence_count IS NOT NULL
CountedRows(cf, source_name, repo_key) ==
    {r \in cf : r.src = source_name /\ r.key = repo_key /\ r.cnt # NULL}

\* The bare column analyzer_name of a group comes from the row of the group
\* that holds MAX(updated).  The timestamps are whole seconds, so which row
\* that is is the engine's pick, group by group: pref[ft] when pref has one
\* for the group and the group has a row of it (<<>> has one for no group).
BareAnalyzer(group, ft, pref) ==
    IF ft \in DOMAIN pref /\ pref[ft] \in {r.an : r \in group} THEN pref[ft]
    ELSE CHOOSE a \in {r.an : r \in group} : TRUE

\* The SELECT ... GROUP BY feature_name of save_repo_features
AggregateRows(cf, source_name, repo_key, pref) ==
    LET rows == CountedRows(cf, source_name, repo_key)
        group(ft) == {r \in rows : r.feat = ft}
    IN  { [src |-> source_name, key |-> repo_key,
           an |-> BareAnalyzer(group(ft), ft, pref), feat |-> ft,
           occ |-> SumCount(group(ft)),
           cocc |-> SumMaxCount1(group(ft)),
           ctot |-> Cardinality(group(ft))]
          : ft \in {r.feat : r \in rows} }

\* Database.save_repo_features: the table repo_feature afterwards
save_repo_features_rf(rf, cf, source_name, repo_key, pref) ==
    UpsertRepo(rf, AggregateRows(cf, source_name, repo_key, pref))

\* Database.save_repo_features: the table code_feature afterwards
save_repo_features_cf(cf, source_name, repo_key, keep_code_features) ==
    IF keep_code_features THEN cf
    ELSE {r \in cf : ~(r.src = source_name /\ r.key = repo_key)}

(***************************************************************************)
(* Repo handles, futures and jobs: codesurvey/core.py, sources/core.py.    *)
(***************************************************************************)
\* A Repo object: the idx-th item its source yields.  Two handles are the
\* same object iff they are equal here.
Handle(src, idx) == [src |-> src, idx |-> idx]
AllHandles == {h \in [src : SourceSet, idx : 1..MaxScriptLen] : h.idx <= Len(script[h.src])}
RepoKey(h) == script[h.src][h.idx].key

\* Repo.__eq__ (dataclass): source, key, path and cleanup are compared.
\* Source defines no __eq__, so two sources are equal when they are one
\* object: a Repo that a RepoThunk returned comes back from the worker with
\* a copy of its source and equals no other Repo.
RepoEq(h1, h2) ==
    \/ h1 = h2
    \/ /\ h1.src = h2.src
       /\ RepoKey(h1) = RepoKey(h2)
       /\ script[h1.src][h1.idx].kind = "repo"
       /\ script[h2.src][h2.idx].kind = "repo"
       /\ ~script[h1.src][h1.idx].uniq
       /\ ~script[h2.src][h2.idx].uniq

RECURSIVE ListRemove(_, _)
\* list.remove(x): drops the first element that is x or equals x
ListRemove(list, h) ==
    IF list = <<>> THEN <<>>
    ELSE IF RepoEq(Head(list), h) THEN Tail(list)
    ELSE <<Head(list)>> \o ListRemove(Tail(list), h)

\* A concurrent.futures.Future, named by the job it was submitted for
Fut(kind, h, an, unit) ==
    [kind |-> kind, src |-> h.src, idx |-> h.idx, an |-> an, unit |-> unit]
FutHandle(f) == Handle(f.src, f.idx)
NoFeatures == [an \in {} |-> <<>>]
\* RepoJob(source, analyzer_features) / CodeJob(analyzer, repo); feats are
\* the features the CodeThunk was created for
RepoJob(af) == [kind |-> "repo", af |-> af, feats |-> <<>>]
CodeJob(feats) == [kind |-> "code", af |-> NoFeatures, feats |-> feats]

\* function update that may extend the domain
Put(fn, k, v) == [x \in DOMAIN fn \cup {k} |-> IF x = k THEN v ELSE fn[x]]
\* the function fn with its domain cut down to keys
Restrict(fn, keys) == [x \in keys |-> fn[x]]

(***************************************************************************)
(* The progress bars of a run: CodeSurveyRunner.get_pbars.  Only the keys  *)
(* of the feature bars matter to the run: check_repo_completion looks them *)
(* up.                                                                     *)
(***************************************************************************)
\* progress_analyzer_features of run(): None, or a mapping from analyzer
\* names to feature names
NoProgressArg == [given |-> FALSE, features |-> NoFeatures]
ProgressArg(features) == [given |-> TRUE, features |-> features]
ProgressChoices == {NoProgressArg, ProgressArg(NoFeatures)}

\* How many characters the names of the analyzers have: "a1" and "a2" as
\* they are, or standing for longer names such as "python" and "javascript"
NameLengthChoices == {[a1 |-> 2, a2 |-> 2], [a1 |-> 6, a2 |-> 10]}

\* get_pbars, line 75
max_auto_feature_progress == 10

RECURSIVE SumLengths(_, _)
\* len([feature for features in self.analyzer_features for feature in
\* features]): iterating the dict gives its keys, the analyzer names, and
\* iterating a name gives its characters
SumLengths(names, name_len) ==
    IF names = {} THEN 0
    ELSE LET n == CHOOSE x \in names : TRUE
         IN  name_len[n] + SumLengths(names \ {n}, name_len)

\* CodeSurveyRunner.get_pbars: the (analyzer, feature) pairs that get a bar
get_pbars(progress_analyzer_features, afs, name_len) ==
    LET all_features == SumLengths(DOMAIN afs, name_len)
        shown == IF progress_analyzer_features.given
                 THEN progress_analyzer_features.features
                 ELSE IF all_features > max_auto_feature_progress THEN NoFeatures
                 ELSE afs
    IN  UNION {{<<an, shown[an][i]>> : i \in 1..Len(shown[an])} : an \in DOMAIN shown}

\* The bars run() can have for a survey with these analyzer_features
PbarChoices(afs) ==
    {get_pbars(p, afs, nl) : p \in ProgressChoices, nl \in NameLengthChoices}

\* The bars of run() called without progress_analyzer_features on analyzers
\* with short names: one per feature
AllBars(afs) == get_pbars(NoProgressArg, afs, [an \in DOMAIN afs |-> 2])

\* db_filepath of CodeSurvey(...): the default, or the path of a file
DbPathChoices == {":memory:", "survey.db"}

(***************************************************************************)
(* The runner's state as one record, so that a handler is a function from  *)
(* state to state.  exc: "none", "break" (BreakException), "error" (an     *)
(* exception on its way out of run()) or "interrupt" (KeyboardInterrupt).  *)
(* sig, intr: a KeyboardInterrupt that is due after intr more statements   *)
(* of the coordinator ("armed"), or that has been raised ("delivered").    *)
(* hold: where it is raised when it is due at a statement that runs inside *)
(* "with self.db.atomic()": after the statement ("none"), or inside the    *)
(* context manager, on its way in ("enter") or out ("exit").  txn: a       *)
(* transaction of the store was left open.  fl: the failures the workers   *)
(* may still produce.                                                      *)
(***************************************************************************)
ObsInit(rf, clean) ==
    [saves |-> 0,           \* unit results persisted (save_code_features calls)
     submits |-> 0,         \* CodeJobs submitted
     capsubmit |-> FALSE,   \* a CodeJob was submitted with max_codes reached
     discards |-> 0,        \* unit results dropped by handle_code
     recorded |-> {},       \* the code_feature rows written in this run
     failed |-> 0,          \* handle_failure calls
     started |-> [h \in AllHandles |-> 0],    \* unit analyses started per repo
     completions |-> [h \in AllHandles |-> 0],\* completion handlings per repo
     rf_start |-> rf,       \* repo_feature when the run started
     cf_agg |-> [h \in AllHandles |-> {}],    \* counted rows at aggregation
     prev_clean |-> clean,  \* the previous run ended normally, uncapped, no failure
     failedjobs |-> {},     \* the futures whose result() raised in a callback
     handled |-> [h \in AllHandles |-> 0],    \* unit results handled per repo
     admitted |-> [h \in AllHandles |-> 0],   \* handle_repo calls per repo
     trace |-> [h \in AllHandles |-> <<>>],   \* steps of completion, in order
     yielded |-> <<>>,      \* what next(self.repo_generator) returned, in order
     unwind |-> <<>>,       \* steps of the finally block of run(), in order
     keyerror |-> FALSE,    \* self.pbars[feature_pbar_key] raised KeyError
     hot |-> {},            \* repos cleaned up with a unit job of theirs pending
     halt |-> [seen |-> FALSE, saves |-> 0,   \* what had been persisted,
               admitted |-> [h \in AllHandles |-> 0], \* admitted and drawn
               yielded |-> <<>>],             \* when a failure was first raised
     prev_cf |-> {}]        \* the code_feature rows the earlier runs wrote

St ==
    [ftj |-> future_to_job, fut |-> future_state, cur |-> current_repos,
     crc |-> completed_repo_count, ccc |-> completed_code_count,
     cf |-> code_feature, rf |-> repo_feature, md |-> repo_metadata,
     cl |-> cleanup_calls, obs |-> obs, open |-> db_open, exc |-> "none",
     sig |-> "none", intr |-> 0, hold |-> "none", txn |-> FALSE,
     fl |-> failures_left]

\* The state in which a KeyboardInterrupt is due after n more statements of
\* the coordinator; n = 0: it is raised before the next statement
StSignal(n) ==
    IF n = 0 THEN [St EXCEPT !.exc = "interrupt", !.sig = "delivered"]
    ELSE [St EXCEPT !.sig = "armed", !.intr = n]

\* A statement of the coordinator has completed: a signal that is due now
\* raises KeyboardInterrupt before the next statement
Tick(st) ==
    IF st.sig # "armed" THEN st
    ELSE IF st.intr > 1 THEN [st EXCEPT !.intr = @ - 1]
    ELSE [st EXCEPT !.intr = 0, !.sig = "delivered", !.exc = "interrupt"]

\* A statement that writes inside "with self.db.atomic()" has been reached
\* in state st and leaves state saved.  A KeyboardInterrupt that is due at
\* it is raised after it, or inside the context manager: in __enter__ once
\* the transaction is pushed (nothing is written), or in __exit__ before the
\* transaction is popped (the rows are written); in both the transaction
\* stays on the stack of the database.
AtomicTick(st, saved) ==
    IF st.sig = "armed" /\ st.intr <= 1 /\ st.hold # "none"
    THEN [Tick(IF st.hold = "enter" THEN st ELSE saved) EXCEPT !.txn = TRUE]
    ELSE Tick(saved)

\* reached_max_repos comparing with > instead of >=
reached_max_repos_gt(st) ==
    IF max_repos = NoCap THEN FALSE
    ELSE LET pending_repos == Cardinality({f \in DOMAIN st.ftj : f.kind = "repo"})
             repo_count == Len(st.cur) + pending_repos + st.crc
         IN  repo_count > max_repos

\* CodeSurveyRunner.reached_max_repos
reached_max_repos(st) ==
    IF max_repos = NoCap THEN FALSE
    ELSE LET pending_repos == Cardinality({f \in DOMAIN st.ftj : f.kind = "repo"})
             repo_count == Len(st.cur) + pending_repos + st.crc
         IN  repo_count >= max_repos

\* reached_max_codes comparing with > instead of >=
reached_max_codes_gt(st) ==
    IF max_codes = NoCap THEN FALSE
    ELSE st.ccc > max_codes

\* CodeSurveyRunner.reached_max_codes
reached_max_codes(st) ==
    IF max_codes = NoCap THEN FALSE
    ELSE st.ccc >= max_codes

\* A failure of a provider, of a strategy or of a job is raised as an
\* exception: "raise" of handle_failure, or the exception itself where
\* nothing catches it.  On its way out it is tested by the except clauses
\* that do not match it (lines 317, 360 and 460); a KeyboardInterrupt that
\* is due there is raised in its place.
Raise(st) ==
    Tick([st EXCEPT !.exc = "error",
                    !.obs.halt = IF @.seen THEN @
                                 ELSE [seen |-> TRUE, saves |-> st.obs.saves,
                                       admitted |-> st.obs.admitted,
                                       yielded |-> st.obs.yielded]])

\* handle_failure that raises whatever continue_on_failure is
handle_failure_raise(st) ==
    IF st.exc # "none" THEN st
    ELSE LET logged == Tick([st EXCEPT !.obs.failed = @ + 1])
         IN  IF logged.exc # "none" THEN logged
             ELSE Raise(logged)

\* handle_failure that logs whatever continue_on_failure is
handle_failure_log(st) ==
    IF st.exc # "none" THEN st
    ELSE Tick([st EXCEPT !.obs.failed = @ + 1])

\* CodeSurveyRunner.handle_failure: log, then go on or raise
handle_failure(st) ==
    IF st.exc # "none" THEN st
    ELSE LET logged == Tick([st EXCEPT !.obs.failed = @ + 1])
         IN  IF continue_on_failure \/ logged.exc # "none" THEN logged
             ELSE Raise(logged)

\* save_repo_features, first statement: INSERT ... SELECT ... GROUP BY
InsertAggregate(st, h, pref) ==
    IF st.exc # "none" THEN st
    ELSE Tick([st EXCEPT
                 !.rf = save_repo_features_rf(st.rf, st.cf, h.src, RepoKey(h),
                                              IF h \in DOMAIN pref THEN pref[h]
                                              ELSE <<>>),
                 !.obs.cf_agg[h] = CountedRows(st.cf, h.src, RepoKey(h)),
                 !.obs.trace[h] = Append(@, "aggregate")])

\* save_repo_features, second statement: the DELETE of the unit records
\* "if not keep_code_features"
DeleteCodeFeatures(st, h) ==
    IF st.exc # "none" \/ save_code_features THEN st
    ELSE Tick([st EXCEPT
                 !.cf = save_repo_features_cf(st.cf, h.src, RepoKey(h),
                                              save_code_features)])

\* check_repo_completion, line 209: self.db.save_repo_features(repo, ...)
PersistAggregate(st, h, pref) ==
    DeleteCodeFeatures(InsertAggregate(st, h, pref), h)

\* the completion that leaves completed_repo_count alone
CountCompleted_Silent(st, h) ==
    IF st.exc # "none" THEN st
    ELSE Tick([st EXCEPT !.obs.completions[h] = @ + 1,
                         !.obs.trace[h] = Append(@, "count")])

\* check_repo_completion, line 210: self.completed_repo_count += 1
CountCompleted(st, h) ==
    IF st.exc # "none" THEN st
    ELSE Tick([st EXCEPT !.crc = @ + 1,
                         !.obs.completions[h] = @ + 1,
                         !.obs.trace[h] = Append(@, "count")])

\* check_repo_completion, lines 213-224: the repo-level records of the
\* repository are read back and, for each with occurrence_count > 0,
\* self.pbars[("feature", analyzer_name, feature_name)].update(1): KeyError
\* when run() created no bar of that key
UpdateFeatureBars(st, h) ==
    IF st.exc # "none" THEN st
    ELSE LET repo_features == {r \in st.rf : r.src = h.src /\ r.key = RepoKey(h)}
         IN  IF \E r \in repo_features : r.occ > 0 /\ <<r.an, r.feat>> \notin pbars
             THEN Tick([st EXCEPT !.exc = "error", !.obs.keyerror = TRUE])
             ELSE st

\* The unit jobs of the repository that a worker still holds
PendingUnits(st, h) ==
    {f \in DOMAIN st.fut :
        f.kind = "code" /\ FutHandle(f) = h /\ st.fut[f] = "pending"}

\* repo.cleanup()
Cleanup(st, h) ==
    [st EXCEPT !.cl[h] = @ + 1,
               !.obs.hot = IF PendingUnits(st, h) = {} THEN @ ELSE @ \cup {h}]

\* check_repo_completion, line 227: repo.cleanup()
CleanupRepo(st, h) ==
    IF st.exc # "none" THEN st
    ELSE Tick([Cleanup(st, h) EXCEPT !.obs.trace[h] = Append(@, "cleanup")])

\* check_repo_completion, line 228: self.current_repos.remove(repo)
RemoveCurrent(st, h) ==
    IF st.exc # "none" THEN st
    ELSE Tick([st EXCEPT !.cur = ListRemove(@, h),
                         !.obs.trace[h] = Append(@, "remove")])

\* check_repo_completion, one repo of completed_repos: the statements of
\* the loop body in the order of the code
CompleteRepo(st, h, pref) ==
    RemoveCurrent(
        CleanupRepo(
            UpdateFeatureBars(CountCompleted(PersistAggregate(st, h, pref), h), h),
            h),
        h)

RECURSIVE CompleteAll(_, _, _)
CompleteAll(st, completed_repos, pref) ==
    IF completed_repos = <<>> THEN st
    ELSE CompleteAll(CompleteRepo(st, Head(completed_repos), pref),
                     Tail(completed_repos), pref)

\* check_repo_completion taking every repo of current_repos as completed
check_repo_completion_all(st, pref) ==
    CompleteAll(IF st.exc # "none" THEN st ELSE Tick(st), st.cur, pref)

\* CodeSurveyRunner.check_repo_completion: every repo of current_repos with
\* no CodeJob left in future_to_job.  listed: completed_repos has been built
\* (lines 201 to 207) and nothing is written yet.
check_repo_completion(st, pref) ==
    LET completed_repos ==
            SelectSeq(st.cur,
                      LAMBDA h : {f \in DOMAIN st.ftj :
                                    f.kind = "code" /\ FutHandle(f) = h} = {})
        listed == IF st.exc # "none" THEN st ELSE Tick(st)
    IN  CompleteAll(listed, completed_repos, pref)

\* The Code an analysis returns
Code(h, an, unit, feats) ==
    [src |-> h.src, key |-> RepoKey(h), an |-> an, unit |-> unit, feats |-> feats]

\* handle_code, line 235: self.db.save_code_features(code, ...)
SaveCode(st, code) ==
    IF st.exc # "none" THEN st
    ELSE AtomicTick(st, [st EXCEPT !.cf = db_save_code_features(@, code),
                                   !.obs.saves = @ + 1,
                                   !.obs.recorded = db_save_code_features(@, code)])

\* handle_code, line 237: self.completed_code_count += 1
CountCode(st) ==
    IF st.exc # "none" THEN st
    ELSE Tick([st EXCEPT !.ccc = @ + 1])

\* handle_code without its early return
handle_code_uncapped(st, code) ==
    CountCode(SaveCode(st, code))

\* CodeSurveyRunner.handle_code
handle_code(st, code) ==
    IF st.exc # "none" THEN st
    ELSE IF reached_max_codes(st) THEN Tick([st EXCEPT !.obs.discards = @ + 1])
    ELSE CountCode(SaveCode(st, code))

\* CodeSurveyRunner.handle_code_future
handle_code_future(st, f) ==
    IF st.exc # "none" THEN st
    ELSE LET st0 == [st EXCEPT !.obs.handled[FutHandle(f)] = @ + 1]
         IN  IF st.fut[f] = "fail"
             THEN handle_failure([st0 EXCEPT !.obs.failedjobs = @ \cup {f}])
             ELSE handle_code(st0, Code(FutHandle(f), f.an, f.unit, st.ftj[f].feats))

\* handle_repo's get_code_features(code_key)
get_code_features(st, h, an, unit, features) ==
    IF ~use_saved_features THEN features
    ELSE get_code_missing_features(st.cf, h.src, RepoKey(h), unit, an, features)

\* future = self.executor.submit(...): the pool holds a new job
SubmitJob(st, f) ==
    IF st.exc # "none" THEN st
    ELSE Tick([st EXCEPT !.fut = Put(@, f, "pending")])

\* self.future_to_job[future] = job
RecordJob(st, f, job) ==
    IF st.exc # "none" THEN st
    ELSE Tick([st EXCEPT !.ftj = Put(@, f, job)])

\* executor.submit(code_or_thunk.thunk); future_to_job[future] = CodeJob(...)
SubmitCode(st, h, an, unit, feats) ==
    IF st.exc # "none" THEN st
    ELSE RecordJob(
             SubmitJob([st EXCEPT !.obs.submits = @ + 1,
                                  !.obs.capsubmit = @ \/ reached_max_codes(st),
                                  !.obs.started[h] = @ + 1],
                       Fut("code", h, an, unit)),
             Fut("code", h, an, unit), CodeJob(feats))

RECURSIVE AnalyzerCodes(_, _, _, _, _)
\* handle_repo, "for code_or_thunk in analyzer_codes", from the i-th unit on.
\* FileAnalyzer.code_generator yields nothing for a unit with no feature left.
\* A stream of Codes analyses the unit inside next(analyzer_codes), ahead of
\* the cap check of the loop body.
AnalyzerCodes(st, h, an, features, i) ==
    IF st.exc # "none" THEN st
    ELSE IF i > Len(UnitKeys(RepoKey(h))) THEN st
    ELSE IF stream_fault.kind = "iter" /\ stream_fault.an = an /\ stream_fault.at = i
    THEN \* next(analyzer_codes) raises: the loop is in the else clause of the
         \* try, its error is not handled by "except Exception"
         Raise(st)
    ELSE LET unit == UnitKeys(RepoKey(h))[i]
             feats == get_code_features(st, h, an, unit, features)
             drawn == IF StreamKind(an) = "code"
                      THEN Tick([st EXCEPT !.obs.started[h] = @ + 1])
                      ELSE st
         IN  IF Len(feats) = 0 THEN AnalyzerCodes(st, h, an, features, i + 1)
             ELSE IF drawn.exc # "none" THEN drawn
             ELSE IF reached_max_codes(drawn) THEN [drawn EXCEPT !.exc = "break"]
             ELSE IF StreamKind(an) = "thunk"
             THEN AnalyzerCodes(SubmitCode(drawn, h, an, unit, feats),
                                h, an, features, i + 1)
             ELSE AnalyzerCodes(
                      handle_code([drawn EXCEPT !.obs.handled[h] = @ + 1],
                                  Code(h, an, unit, feats)),
                      h, an, features, i + 1)

RECURSIVE AnalyzeRepo(_, _, _, _)
\* handle_repo, "for analyzer in self.analyzers.values()", from the j-th on
AnalyzeRepo(st, h, af, j) ==
    IF st.exc # "none" THEN st
    ELSE IF j > Len(AnalyzerNames) THEN st
    ELSE LET an == AnalyzerNames[j]
         IN  IF an \notin DOMAIN af THEN AnalyzeRepo(st, h, af, j + 1)
             ELSE LET st1 == IF stream_fault.kind = "call" /\ stream_fault.an = an
                             THEN \* analyzer.code_generator(...) raises:
                                  \* except Exception, handle_failure
                                  handle_failure(st)
                             ELSE AnalyzerCodes(st, h, an, af[an], 1)
                  IN  AnalyzeRepo(st1, h, af, j + 1)

\* handle_repo, line 260: self.current_repos.append(repo)
AppendCurrent(st, h) ==
    IF st.exc # "none" THEN st
    ELSE Tick([st EXCEPT !.cur = Append(@, h),
                         !.obs.admitted[h] = @ + 1])

\* handle_repo, line 261: self.db.save_repo_metadata(repo)
SaveMetadata(st, h) ==
    IF st.exc # "none" THEN st
    ELSE AtomicTick(st, [st EXCEPT !.md = save_repo_metadata(@, h.src, RepoKey(h))])

\* handle_repo, the body of its try statement with "except BreakException":
\* the cap check of line 263 is its first statement
AnalyzeUnlessCapped(st, h, af) ==
    LET st0 == Tick(st)
        st1 == IF st0.exc # "none" THEN st0
               ELSE IF reached_max_codes(st0) THEN [st0 EXCEPT !.exc = "break"]
               ELSE AnalyzeRepo(st0, h, af, 1)
    IN  IF st1.exc = "break" THEN [st1 EXCEPT !.exc = "none"] ELSE st1

\* A finally clause that runs check_repo_completion: it runs whatever
\* exception is on its way, which goes on afterwards unless the clause
\* raises one of its own (a KeyError of the progress bars, or a
\* KeyboardInterrupt that is due inside the clause, before anything is
\* written or between two of its statements)
FinallyCheckCompletion(st, pref) ==
    LET done_st == check_repo_completion([st EXCEPT !.exc = "none"], pref)
    IN  IF done_st.exc = "none" THEN [done_st EXCEPT !.exc = st.exc]
        ELSE done_st

\* CodeSurveyRunner.handle_repo
handle_repo(st, h, af, pref) ==
    LET st0 == SaveMetadata(AppendCurrent(st, h), h)
    IN  IF st0.exc # "none"
        THEN \* raised before the try statement is entered
             st0
        ELSE FinallyCheckCompletion(AnalyzeUnlessCapped(st0, h, af), pref)

\* CodeSurveyRunner.handle_repo_future
handle_repo_future(st, f, pref) ==
    IF st.exc # "none" THEN st
    ELSE IF st.fut[f] = "fail"
    THEN handle_failure([st EXCEPT !.obs.failedjobs = @ \cup {f}])
    ELSE handle_repo(st, FutHandle(f), st.ftj[f].af, pref)

(***************************************************************************)
(* The repo feed: CodeSurveyRunner.get_repo_generator.                     *)
(* gens: the sources still in source_repo_generators; pos: how many items  *)
(* each source has yielded; cyc: where cycle(sources) stands; closed: the  *)
(* generator has returned or raised.  A next() of the feed gives [feed,    *)
(* out, item, fails]: out is "item" (a Repo or a RepoThunk was yielded),   *)
(* "stop" (StopIteration) or "error" (handle_failure raised out of the     *)
(* generator); fails counts the calls of handle_failure it made.           *)
(***************************************************************************)
FeedInit ==
    [gens |-> SourceSet, pos |-> [s \in SourceSet |-> 0], cyc |-> 1,
     closed |-> FALSE]

\* next() of a feed that has ended
FeedStop(fd) ==
    [feed |-> [fd EXCEPT !.closed = TRUE], out |-> "stop",
     item |-> Handle("s1", 0), fails |-> 0]

\* the feed after one more call of handle_failure that logged
FeedFailed(next_result) ==
    [next_result EXCEPT !.fails = @ + 1]

RECURSIVE FeedNext_Drain(_)
\* a feed that stays with a provider after it yielded
FeedNext_Drain(fd) ==
    IF fd.closed THEN FeedStop(fd)
    ELSE LET source == SourceNames[fd.cyc]
             nxt == (fd.cyc % Len(SourceNames)) + 1
         IN  IF fd.gens = {} THEN FeedStop(fd)
             ELSE IF source \notin fd.gens
             THEN FeedNext_Drain([fd EXCEPT !.cyc = nxt])
             ELSE IF fd.pos[source] >= Len(script[source])
             THEN FeedNext_Drain([fd EXCEPT !.gens = @ \ {source}, !.cyc = nxt])
             ELSE LET idx == fd.pos[source] + 1
                      fd1 == [fd EXCEPT !.pos[source] = idx]
                  IN  IF script[source][idx].kind = "raise"
                      THEN IF continue_on_failure
                           THEN FeedFailed(FeedNext_Drain([fd1 EXCEPT !.cyc = nxt]))
                           ELSE [feed |-> [fd1 EXCEPT !.closed = TRUE],
                                 out |-> "error", item |-> Handle(source, idx),
                                 fails |-> 1]
                      ELSE [feed |-> fd1, out |-> "item",
                            item |-> Handle(source, idx), fails |-> 0]

RECURSIVE FeedNext_DropFailed(_)
\* a feed that takes a provider out of the rotation when it raises
FeedNext_DropFailed(fd) ==
    IF fd.closed THEN FeedStop(fd)
    ELSE LET source == SourceNames[fd.cyc]
             nxt == (fd.cyc % Len(SourceNames)) + 1
         IN  IF fd.gens = {} THEN FeedStop(fd)
             ELSE IF source \notin fd.gens
             THEN FeedNext_DropFailed([fd EXCEPT !.cyc = nxt])
             ELSE IF fd.pos[source] >= Len(script[source])
             THEN FeedNext_DropFailed([fd EXCEPT !.gens = @ \ {source}, !.cyc = nxt])
             ELSE LET idx == fd.pos[source] + 1
                      fd1 == [fd EXCEPT !.pos[source] = idx, !.cyc = nxt]
                  IN  IF script[source][idx].kind = "raise"
                      THEN IF continue_on_failure
                           THEN FeedFailed(
                                    FeedNext_DropFailed([fd1 EXCEPT !.gens = @ \ {source}]))
                           ELSE [feed |-> [fd1 EXCEPT !.closed = TRUE],
                                 out |-> "error", item |-> Handle(source, idx),
                                 fails |-> 1]
                      ELSE [feed |-> fd1, out |-> "item",
                            item |-> Handle(source, idx), fails |-> 0]

RECURSIVE FeedNext(_)
\* next(self.repo_generator)
FeedNext(fd) ==
    IF fd.closed THEN FeedStop(fd)
    ELSE LET source == SourceNames[fd.cyc]
             nxt == (fd.cyc % Len(SourceNames)) + 1
         IN  IF fd.gens = {} THEN FeedStop(fd)
             ELSE IF source \notin fd.gens
             THEN FeedNext([fd EXCEPT !.cyc = nxt])
             ELSE IF fd.pos[source] >= Len(script[source])
             THEN \* StopIteration: del source_repo_generators[source]
                  FeedNext([fd EXCEPT !.gens = @ \ {source}, !.cyc = nxt])
             ELSE LET idx == fd.pos[source] + 1
                      fd1 == [fd EXCEPT !.pos[source] = idx, !.cyc = nxt]
                  IN  IF script[source][idx].kind = "raise"
                      THEN \* except Exception: self.handle_failure(...)
                           IF continue_on_failure THEN FeedFailed(FeedNext(fd1))
                           ELSE [feed |-> [fd1 EXCEPT !.closed = TRUE],
                                 out |-> "error", item |-> Handle(source, idx),
                                 fails |-> 1]
                      ELSE [feed |-> fd1, out |-> "item",
                            item |-> Handle(source, idx), fails |-> 0]

RECURSIVE FeedTrail(_, _)
\* The states in which a KeyboardInterrupt raised inside
\* next(self.repo_generator) leaves the feed, in the order the call passes
\* them: at the start of each turn of its loop, and after a source has
\* produced its item, before the feed yields it; when the source raised,
\* before handle_failure is called (line 162) and after it has logged.  An
\* exception that leaves a generator closes it.  fails: the calls of
\* handle_failure made so far; made: the Repo a source has created and the
\* feed has not yielded.
FeedTrail(fd, fails) ==
    IF fd.closed THEN <<>>
    ELSE LET source == SourceNames[fd.cyc]
             nxt == (fd.cyc % Len(SourceNames)) + 1
             here == [feed |-> [fd EXCEPT !.closed = TRUE], fails |-> fails,
                      made |-> {}]
         IN  IF fd.gens = {} THEN <<here>>
             ELSE IF source \notin fd.gens
             THEN <<here>> \o FeedTrail([fd EXCEPT !.cyc = nxt], fails)
             ELSE IF fd.pos[source] >= Len(script[source])
             THEN <<here>> \o FeedTrail([fd EXCEPT !.gens = @ \ {source},
                                                   !.cyc = nxt], fails)
             ELSE LET idx == fd.pos[source] + 1
                      fd1 == [fd EXCEPT !.pos[source] = idx, !.cyc = nxt]
                      there == [feed |-> [fd1 EXCEPT !.closed = TRUE],
                                fails |-> fails, made |-> {}]
                  IN  IF script[source][idx].kind = "raise"
                      THEN IF continue_on_failure
                           THEN <<here, there>> \o FeedTrail(fd1, fails + 1)
                           ELSE <<here, there,
                                  [there EXCEPT !.fails = fails + 1]>>
                      ELSE <<here,
                             [there EXCEPT
                                !.made = IF script[source][idx].kind = "repo"
                                         THEN {Handle(source, idx)} ELSE {}]>>

(***************************************************************************)
(* CodeSurveyRunner.run: the loop and its unwind.                          *)
(***************************************************************************)
\* The writes of state st, and the position the coordinator goes to
Commit(st, fd, cr, newpc, newdone, newcalled) ==
    /\ future_to_job' = st.ftj
    /\ future_state' = st.fut
    /\ current_repos' = st.cur
    /\ completed_repo_count' = st.crc
    /\ completed_code_count' = st.ccc
    /\ code_feature' = st.cf
    /\ repo_feature' = st.rf
    /\ repo_metadata' = st.md
    /\ cleanup_calls' = st.cl
    /\ obs' = st.obs
    /\ feed' = fd
    /\ created' = cr
    /\ pc' = newpc
    /\ done' = newdone
    /\ called' = newcalled
    /\ db_open' = st.open
    /\ failures_left' = st.fl
    /\ UNCHANGED <<cfgvars, run_no, fail_budget>>

\* What the pool does while the finally block of run() runs.  finished: the
\* jobs submitted in the step that ends run() which a worker finishes before
\* the pool is stopped, with their outcome (a job that was pending before
\* the step finishes in a step of the workers before it, to the same
\* effect).  running: the pending jobs that the pool has handed to a worker
\* or put on its call queue when future.cancel() is called (each worker
\* runs one job, the queue holds one more than there are workers).  reaped:
\* whether the pool has ended the jobs of its workers by the time the loop
\* that terminates them is over.  When the block runs to its end it ends
\* the same way for every choice of running and reaped, so one stands for
\* all.
PoolChoices(st) ==
    LET fresh == {f \in DOMAIN st.fut :
                     st.fut[f] = "pending" /\ f \notin DOMAIN future_state}
        outcomes == {fin \in UNION {[d -> {"ok", "fail"}] : d \in SUBSET fresh} :
                        Cardinality({f \in DOMAIN fin : fin[f] = "fail"}) <= st.fl}
        pending(fin) == {f \in DOMAIN st.ftj :
                            st.fut[f] = "pending" /\ f \notin DOMAIN fin}
    IN  UNION {IF st.sig = "armed"
               THEN {[finished |-> fin, running |-> r, reaped |-> b] :
                       r \in {x \in SUBSET pending(fin) :
                                 Cardinality(x) <= 2 * max_workers + 1},
                       b \in BOOLEAN}
               ELSE {[finished |-> fin, running |-> pending(fin), reaped |-> TRUE]}
               : fin \in outcomes}

\* run(), finally: "for future in self.future_to_job: future.cancel()".
\* Future.cancel() cancels a job that is not running yet and leaves a
\* running one alone.
CancelFutures(st, pool) ==
    IF st.exc # "none" THEN st
    ELSE Tick([st EXCEPT !.fut = [f \in DOMAIN @ |->
                                    IF /\ f \in DOMAIN st.ftj
                                       /\ @[f] = "pending"
                                       /\ f \notin pool.running
                                    THEN "cancelled" ELSE @[f]],
                         !.obs.unwind = Append(@, "cancel")])

\* run(), finally: process.terminate() for every worker process, then
\* executor.shutdown(): no job of the pool finishes any more
StopPool(st, pool) ==
    LET killed == IF st.exc # "none" THEN st
                  ELSE Tick([st EXCEPT
                               !.fut = [f \in DOMAIN @ |->
                                          IF pool.reaped /\ @[f] = "pending"
                                          THEN "cancelled" ELSE @[f]],
                               !.obs.unwind = Append(@, "terminate")])
    IN  IF killed.exc # "none" THEN killed
        ELSE Tick([killed EXCEPT !.fut = [f \in DOMAIN @ |->
                                            IF @[f] = "pending" THEN "cancelled"
                                            ELSE @[f]]])

RECURSIVE CleanupAll(_, _)
\* "for repo in self.current_repos: repo.cleanup()", from the given repos on
CleanupAll(st, repos) ==
    IF st.exc # "none" \/ repos = <<>> THEN st
    ELSE CleanupAll(Tick(Cleanup(st, Head(repos))), Tail(repos))

\* run(), finally: "for repo in self.current_repos: repo.cleanup()"
CleanupCurrent(st) ==
    IF st.exc # "none" THEN st
    ELSE LET cleaned == CleanupAll([st EXCEPT !.obs.unwind = Append(@, "cleanup")],
                                   st.cur)
         IN  IF cleaned.exc # "none" THEN cleaned ELSE Tick(cleaned)

\* run(), finally: self.db.close().  The database refuses to close while a
\* transaction is open: it raises OperationalError and stays open.
CloseStore(st) ==
    IF st.exc # "none" THEN st
    ELSE IF st.txn THEN [st EXCEPT !.exc = "error"]
    ELSE Tick([st EXCEPT !.open = FALSE,
                         !.obs.unwind = Append(@, "close")])

\* The statements of the finally block of run(), in the order of the code;
\* the block runs whatever exception is on its way, which waits for it.
\* The workers finish the jobs of pool.finished meanwhile: each returns its
\* result or raises.
UnwindState(st, pool) ==
    LET fails == {f \in DOMAIN pool.finished : pool.finished[f] = "fail"}
        entered == [st EXCEPT !.exc = "none",
                              !.fut = [f \in DOMAIN @ |->
                                         IF f \in DOMAIN pool.finished
                                         THEN pool.finished[f] ELSE @[f]],
                              !.fl = @ - Cardinality(fails)]
    IN  CloseStore(
            CleanupCurrent(
                StopPool(CancelFutures(Tick(entered), pool), pool)))

\* The finally block of run(): cancel the futures, stop the pool, clean up
\* the repos still in current_repos, close the store; then run() returns or
\* the exception goes on to the caller of run().  A KeyboardInterrupt raised
\* inside the block leaves its remaining statements out and goes on to the
\* caller in place of what was on its way ("aborted"), and so does the
\* error that self.db.close() raises ("raised").
Unwind(st, fd, cr, newpc, newcalled) ==
    \E pool \in PoolChoices(st) :
        LET u == UnwindState(st, pool)
            made == {FutHandle(f) : f \in {g \in DOMAIN pool.finished :
                                              /\ g.kind = "repo"
                                              /\ pool.finished[g] = "ok"}}
        IN  Commit(u, fd, cr \cup made,
                   IF u.exc = "interrupt" THEN "aborted"
                   ELSE IF u.exc = "error" THEN "raised"
                   ELSE newpc,
                   done, newcalled)

\* the loop of run() breaking whatever future_to_job holds
LeaveConsume_AlwaysBreak(st, fd, cr) ==
    Unwind(st, fd, cr, "stopped", called)

\* After consume_repos returned: break when future_to_job is empty, else wait
LeaveConsume(st, fd, cr) ==
    IF DOMAIN st.ftj = {} THEN Unwind(st, fd, cr, "stopped", called)
    ELSE Commit(st, fd, cr, "wait", {}, {})

\* What a handler leaves: an exception unwinds run(), else the loop goes on
Continue(st, fd, cr, newpc, newdone, newcalled) ==
    IF st.exc = "error" THEN Unwind(st, fd, cr, "raised", called)
    ELSE IF st.exc = "interrupt" THEN Unwind(st, fd, cr, "interrupted", called)
    ELSE Commit(st, fd, cr, newpc, newdone, newcalled)

\* the guard without its check for idle workers
ConsumeGuard_NoIdleCheck(st) ==
    /\ ~reached_max_repos(st)
    /\ ~reached_max_codes(st)

\* the guard without its two cap checks
ConsumeGuard_NoCaps(st) ==
    Cardinality(DOMAIN st.ftj) < max_workers

\* The guard of the while loop of consume_repos
ConsumeGuard(st) ==
    /\ Cardinality(DOMAIN st.ftj) < max_workers
    /\ ~reached_max_repos(st)
    /\ ~reached_max_codes(st)

\* the duplicate test that never finds one
InProgress_Never(st, h) == FALSE

\* consume_repos: the candidate is a duplicate of a repo in current_repos
InProgress(st, h) ==
    \E i \in 1..Len(st.cur) :
        st.cur[i].src = h.src /\ RepoKey(st.cur[i]) = RepoKey(h)

\* consume_repos: repo_analyzer_features of the candidate
RepoAnalyzerFeatures(st, h) ==
    IF use_saved_features
    THEN get_repo_missing_analyzer_features(st.rf, h.src, RepoKey(h), analyzer_features)
    ELSE analyzer_features

\* consume_repos, what is done with the candidate h that next() returned
ConsumeCandidate(st, h, pref) ==
    LET af == RepoAnalyzerFeatures(st, h)
    IN  IF st.exc # "none" THEN st
        ELSE IF InProgress(st, h) \/ DOMAIN af = {} THEN st
        ELSE IF script[h.src][h.idx].kind = "thunk"
        THEN RecordJob(SubmitJob(st, Fut("repo", h, "-", "-")),
                       Fut("repo", h, "-", "-"), RepoJob(af))
        ELSE handle_repo(st, h, af, pref)

\* What the engine may pick in the aggregate queries of one step of the
\* coordinator: for each repository the step can complete and each feature
\* name that several analyzers of the survey have (a group that can hold
\* rows of more than one), the analyzer whose row gives the bare column.
\* The step can complete the repos of current_repos and the one it hands to
\* handle_repo, when their CodeJobs in future_to_job are all of the batch
\* being handled.
PrefChoices(handed) ==
    LET afs == analyzer_features
        shared == {ft \in UNION {{afs[an][i] : i \in 1..Len(afs[an])}
                                    : an \in DOMAIN afs} :
                      Cardinality({an \in DOMAIN afs :
                                      \E i \in 1..Len(afs[an]) : afs[an][i] = ft}) > 1}
        handles == {h \in {current_repos[i] : i \in 1..Len(current_repos)}
                              \cup (handed \cap AllHandles) :
                       \A f \in DOMAIN future_to_job :
                           (f.kind = "code" /\ FutHandle(f) = h) => f \in done}
    IN  [handles -> [shared -> AnalyzerSet]]

\* One turn of the while loop of consume_repos from state st: [st, feed,
\* created, left], left when the loop has ended and consume_repos returns
ConsumeTurn(st, fd, cr, pref) ==
    IF st.exc # "none" \/ ~ConsumeGuard(st)
    THEN [st |-> st, feed |-> fd, created |-> cr, left |-> st.exc = "none"]
    ELSE IF st.sig = "armed" /\ st.intr <= Len(FeedTrail(fd, 0))
    THEN \* KeyboardInterrupt inside next(self.repo_generator)
         LET at == FeedTrail(fd, 0)[st.intr]
         IN  [st |-> [st EXCEPT !.intr = 0, !.sig = "delivered",
                                !.exc = "interrupt",
                                !.obs.failed = @ + at.fails],
              feed |-> at.feed, created |-> cr \cup at.made, left |-> FALSE]
    ELSE LET nx == FeedNext(fd)
             h == nx.item
             st0 == [st EXCEPT !.obs.failed = @ + nx.fails,
                               !.intr = IF st.sig = "armed"
                                        THEN @ - Len(FeedTrail(fd, 0)) ELSE @]
         IN  CASE nx.out = "stop" ->
                    [st |-> Tick(st0), feed |-> nx.feed, created |-> cr,
                     left |-> Tick(st0).exc = "none"]
               [] nx.out = "error" ->
                    [st |-> Raise(st0), feed |-> nx.feed,
                     created |-> cr, left |-> FALSE]
               [] OTHER ->
                    [st |-> ConsumeCandidate(
                                Tick([st0 EXCEPT !.obs.yielded = Append(@, h)]),
                                h, pref),
                     feed |-> nx.feed,
                     created |-> IF script[h.src][h.idx].kind = "repo"
                                 THEN cr \cup {h} ELSE cr,
                     left |-> FALSE]

\* The coordinator after a turn of consume_repos
AfterConsume(turn) ==
    IF turn.left THEN LeaveConsume(turn.st, turn.feed, turn.created)
    ELSE Continue(turn.st, turn.feed, turn.created, "consume", {}, {})

\* One turn of the while loop of consume_repos, and what follows the loop
\* when it ends
ConsumeRepos ==
    /\ pc = "consume"
    /\ \E pref \in PrefChoices({FeedNext(feed).item}) :
         AfterConsume(ConsumeTurn(St, feed, created, pref))

\* A worker finishes a deferred job: it returns its result or raises
WorkerFinish ==
    /\ pc \in {"consume", "wait", "callbacks"}
    /\ \E f \in DOMAIN future_state, ok \in BOOLEAN :
         /\ future_state[f] = "pending"
         /\ ok \/ failures_left > 0
         /\ future_state' = [future_state EXCEPT ![f] = IF ok THEN "ok" ELSE "fail"]
         /\ failures_left' = IF ok THEN failures_left ELSE failures_left - 1
         /\ created' = IF ok /\ f.kind = "repo" THEN created \cup {FutHandle(f)}
                       ELSE created
    /\ UNCHANGED <<cfgvars, pc, feed, future_to_job, done, called, current_repos,
                   completed_repo_count, completed_code_count, dbvars,
                   cleanup_calls, obs, run_no, fail_budget>>

\* concurrent.futures.wait(future_to_job, return_when=FIRST_COMPLETED)
Wait ==
    /\ pc = "wait"
    /\ LET finished == {f \in DOMAIN future_to_job : future_state[f] # "pending"}
       IN  /\ finished # {}
           /\ done' = finished
    /\ called' = {}
    /\ pc' = "callbacks"
    /\ UNCHANGED <<cfgvars, feed, future_to_job, future_state, current_repos,
                   completed_repo_count, completed_code_count, dbvars, obsvars>>

\* run(), lines 454-456: the finished batch leaves future_to_job
PopDone(st) ==
    IF st.exc # "none" THEN st
    ELSE Tick([st EXCEPT !.ftj = Restrict(@, DOMAIN @ \ done),
                         !.fut = Restrict(@, DOMAIN @ \ done)])

\* job.callback(future) for one future of the batch and, after the last
\* one, the removal of the batch and check_repo_completion
CallbackTurn(st, f, pref) ==
    LET st1 == IF f.kind = "repo" THEN handle_repo_future(st, f, pref)
               ELSE handle_code_future(st, f)
    IN  IF called \cup {f} = done
        THEN check_repo_completion(PopDone(st1), pref)
        ELSE st1

\* "for future in done: job.callback(future)", one future; after the last
\* one the batch is dropped from future_to_job and check_repo_completion runs
Callback ==
    /\ pc = "callbacks"
    /\ \E f \in done \ called :
       \E pref \in PrefChoices({FutHandle(f)}) :
         LET st1 == CallbackTurn(St, f, pref)
         IN  IF st1.exc = "error"
             THEN Unwind(st1, feed, created, "raised", called \cup {f})
             ELSE IF called \cup {f} = done
             THEN Commit(st1, feed, created, "consume", {}, {})
             ELSE Commit(st1, feed, created, "callbacks", done, called \cup {f})

\* The signal has been raised by the end of the step that leaves st:
\* during the step, or in the finally block of run() when the step ends run()
Landed(st, unwinds) ==
    \/ st.sig = "delivered"
    \/ unwinds /\ \E pool \in PoolChoices(st) :
                      UnwindState(st, pool).sig = "delivered"

\* KeyboardInterrupt in the coordinator, between any two of its statements:
\* it is raised after n statements of the step the coordinator is about to
\* take (n = 0: before the first, or while it is blocked in wait()), and the
\* finally block of run() follows.  Raised at a statement that writes inside
\* "with self.db.atomic()" it may leave the transaction open (hold), and the
\* finally block then ends with self.db.close() raising.
Interrupt ==
    \/ /\ pc \in {"consume", "wait", "callbacks"}
       /\ \E n \in 0..MaxInterruptAt, hold \in {"none", "enter", "exit"} :
            CASE pc = "consume" ->
                   \E pref \in PrefChoices({FeedNext(feed).item}) :
                       LET turn == ConsumeTurn([StSignal(n) EXCEPT !.hold = hold],
                                               feed, created, pref)
                       IN  /\ Landed(turn.st,
                                     turn.st.exc # "none"
                                         \/ (turn.left /\ DOMAIN turn.st.ftj = {}))
                           /\ AfterConsume(turn)
              [] pc = "wait" ->
                   /\ n = 0
                   /\ Unwind(StSignal(n), feed, created, "interrupted", called)
              [] OTHER ->
                   \E f \in done \ called :
                   \E pref \in PrefChoices({FutHandle(f)}) :
                       LET st1 == CallbackTurn([StSignal(n) EXCEPT !.hold = hold],
                                               f, pref)
                       IN  /\ Landed(st1, st1.exc # "none")
                           /\ IF st1.exc = "error"
                              THEN Unwind(st1, feed, created, "raised",
                                          called \cup {f})
                              ELSE Unwind(st1, feed, created, "interrupted", called)
    \/ \* raised in run() before its try statement is entered (lines 412 to
       \* 432): the finally block does not run; the store is open once
       \* get_db() has returned
       /\ pc = "consume"
       /\ feed = FeedInit
       /\ pc' = "aborted"
       /\ db_open' \in BOOLEAN
       /\ UNCHANGED <<cfgvars, feed, future_to_job, future_state, done, called,
                      current_repos, completed_repo_count, completed_code_count,
                      code_feature, repo_feature, repo_metadata, cleanup_calls,
                      created, obs, run_no, fail_budget, failures_left>>

\* KeyboardInterrupt between two steps of the coordinator, or while it is
\* blocked in wait(): the finally block of run() follows
InterruptBetweenSteps ==
    /\ pc \in {"consume", "wait", "callbacks"}
    /\ Unwind(StSignal(0), feed, created, "interrupted", called)

(***************************************************************************)
(* Specifications.                                                         *)
(***************************************************************************)
Caps == {NoCap, 1, 2}

\* run(): state initialization, against a store that holds the given tables
RunInit(cf, rf, md, clean) ==
    /\ pc = "consume"
    /\ feed = FeedInit
    /\ future_to_job = [f \in {} |-> RepoJob(NoFeatures)]
    /\ future_state = [f \in {} |-> "pending"]
    /\ done = {}
    /\ called = {}
    /\ current_repos = <<>>
    /\ completed_repo_count = 0
    /\ completed_code_count = 0
    /\ code_feature = cf
    /\ repo_feature = rf
    /\ repo_metadata = md
    /\ db_open = TRUE
    /\ cleanup_calls = [h \in AllHandles |-> 0]
    /\ created = {}
    /\ obs = ObsInit(rf, clean)
    /\ failures_left = fail_budget

\* One run over two providers that yield two repositories each; in strict
\* mode a strategy may fail (SpecStrategy has it fail in default mode)
Init ==
    /\ script \in ScriptChoices
    /\ analyzer_features \in AnalyzerFeatureChoices
    /\ max_workers \in {1, 2}
    /\ continue_on_failure \in BOOLEAN
    /\ save_code_features \in BOOLEAN
    /\ use_saved_features \in BOOLEAN
    /\ max_repos \in Caps
    /\ max_codes \in Caps
    /\ stream_fault \in IF continue_on_failure THEN {NoFault}
                       ELSE {NoFault} \cup StreamFaults
    /\ survey_args = ArgsOf(analyzer_features)
    /\ call = NoCall
    /\ db_filepath = ":memory:"
    /\ pbars \in PbarChoices(analyzer_features)
    /\ run_no = 1
    /\ fail_budget = MaxFailures
    /\ RunInit({}, {}, {}, FALSE)

\* run() is called again after it has returned or raised, on the same survey
\* or on a new CodeSurvey over the same db_filepath with other flags; the
\* caps and progress_analyzer_features are arguments of run().  get_db()
\* opens the database of db_filepath: the file as the earlier runs left it,
\* or a new, empty in-memory database.
StartRun ==
    /\ pc \in {"stopped", "raised", "interrupted", "aborted"}
    /\ run_no < MaxRuns
    /\ run_no' = run_no + 1
    /\ max_workers' \in {1, 2}
    /\ save_code_features' \in BOOLEAN
    /\ use_saved_features' \in BOOLEAN
    /\ max_repos' \in Caps
    /\ max_codes' \in Caps
    /\ pbars' \in PbarChoices(analyzer_features)
    /\ pc' = "consume"
    /\ feed' = FeedInit
    /\ future_to_job' = [f \in {} |-> RepoJob(NoFeatures)]
    /\ future_state' = [f \in {} |-> "pending"]
    /\ done' = {}
    /\ called' = {}
    /\ current_repos' = <<>>
    /\ completed_repo_count' = 0
    /\ completed_code_count' = 0
    /\ db_open' = TRUE
    /\ code_feature' = IF db_filepath = ":memory:" THEN {} ELSE code_feature
    /\ repo_feature' = IF db_filepath = ":memory:" THEN {} ELSE repo_feature
    /\ repo_metadata' = IF db_filepath = ":memory:" THEN {} ELSE repo_metadata
    /\ cleanup_calls' = [h \in AllHandles |-> 0]
    /\ created' = {}
    /\ obs' = ObsInit(repo_feature',
                      /\ pc = "stopped"
                      /\ max_repos = NoCap
                      /\ max_codes = NoCap
                      /\ obs.failed = 0)
    /\ failures_left' = fail_budget
    /\ UNCHANGED <<script, analyzer_features, continue_on_failure, fail_budget,
                   stream_fault, survey_args, call, db_filepath>>

Next ==
    \/ ConsumeRepos
    \/ WorkerFinish
    \/ Wait
    \/ Callback
    \/ InterruptBetweenSteps

Spec == Init /\ [][Next]_vars

\* Repeated runs against one store, with workers that do not fail and no
\* interrupt
InitResume ==
    /\ script = [s1 |-> <<Item("repo", "r1", TRUE), Item("thunk", "r2", TRUE)>>,
                 s2 |-> <<Item("repo", "r2", TRUE)>>]
    /\ analyzer_features \in AnalyzerFeatureChoices
    /\ max_workers \in {1, 2}
    /\ continue_on_failure = TRUE
    /\ save_code_features \in BOOLEAN
    /\ use_saved_features \in BOOLEAN
    /\ max_repos \in Caps
    /\ max_codes \in Caps
    /\ stream_fault = NoFault
    /\ survey_args = ArgsOf(analyzer_features)
    /\ call = NoCall
    /\ db_filepath = "survey.db"
    /\ pbars \in PbarChoices(analyzer_features)
    /\ run_no = 1
    /\ fail_budget = 0
    /\ RunInit({}, {}, {}, FALSE)

NextResume ==
    \/ ConsumeRepos
    \/ WorkerFinish
    \/ Wait
    \/ Callback
    \/ StartRun

SpecResume == InitResume /\ [][NextResume]_vars

\* One run over providers that repeat keys, raise, or are empty; in strict
\* mode a strategy may fail as well
InitAlt ==
    /\ script \in AltScriptChoices
    /\ analyzer_features \in AnalyzerFeatureChoices
    /\ max_workers \in {1, 2}
    /\ continue_on_failure \in BOOLEAN
    /\ save_code_features = TRUE
    /\ use_saved_features \in BOOLEAN
    /\ max_repos \in Caps
    /\ max_codes \in Caps
    /\ stream_fault \in IF continue_on_failure THEN {NoFault}
                       ELSE {NoFault} \cup StreamFaults
    /\ survey_args = ArgsOf(analyzer_features)
    /\ call = NoCall
    /\ db_filepath = ":memory:"
    /\ pbars \in PbarChoices(analyzer_features)
    /\ run_no = 1
    /\ fail_budget = MaxFailures
    /\ RunInit({}, {}, {}, FALSE)

SpecAlt == InitAlt /\ [][Next]_vars

\* The repo feed by itself: next(self.repo_generator) until it ends, over
\* every pair of providers of at most MaxScriptLen turns
InitFeed ==
    /\ script \in [SourceSet -> SeqsUpTo(MaxScriptLen)]
    /\ analyzer_features \in AnalyzerFeatureChoices
    /\ max_workers = 1
    /\ continue_on_failure \in BOOLEAN
    /\ save_code_features = TRUE
    /\ use_saved_features = TRUE
    /\ max_repos = NoCap
    /\ max_codes = NoCap
    /\ stream_fault = NoFault
    /\ survey_args = ArgsOf(analyzer_features)
    /\ call = NoCall
    /\ db_filepath = ":memory:"
    /\ pbars = AllBars(analyzer_features)
    /\ run_no = 1
    /\ fail_budget = 0
    /\ RunInit({}, {}, {}, FALSE)

\* consume_repos, "repo_or_thunk = next(self.repo_generator)", and nothing
\* done with the candidate
PullFeed ==
    /\ pc = "consume"
    /\ LET nx == FeedNext(feed)
       IN  /\ feed' = nx.feed
           /\ pc' = CASE nx.out = "stop" -> "stopped"
                      [] nx.out = "error" -> "raised"
                      [] OTHER -> "consume"
           /\ obs' = IF nx.out = "item"
                     THEN [obs EXCEPT !.yielded = Append(@, nx.item),
                                      !.failed = @ + nx.fails]
                     ELSE [obs EXCEPT !.failed = @ + nx.fails]
    /\ UNCHANGED <<cfgvars, future_to_job, future_state, done, called,
                   current_repos, completed_repo_count, completed_code_count,
                   dbvars, cleanup_calls, created, run_no, fail_budget,
                   failures_left>>

NextFeed == PullFeed

SpecFeed == InitFeed /\ [][NextFeed]_vars

\* Repeated runs of one survey that never reads saved features and whose
\* strategies share no feature name: run() is called again with the flags
\* the survey was constructed with
InitRetain ==
    /\ script \in ScriptChoices
    /\ analyzer_features = [a1 |-> <<"f", "g">>, a2 |-> <<"h">>]
    /\ max_workers \in {1, 2}
    /\ continue_on_failure = TRUE
    /\ save_code_features \in BOOLEAN
    /\ use_saved_features = FALSE
    /\ max_repos \in Caps
    /\ max_codes \in Caps
    /\ stream_fault = NoFault
    /\ survey_args = ArgsOf(analyzer_features)
    /\ call = NoCall
    /\ db_filepath \in DbPathChoices
    /\ pbars = AllBars(analyzer_features)
    /\ run_no = 1
    /\ fail_budget = 0
    /\ RunInit({}, {}, {}, FALSE)

\* run() is called again on the same CodeSurvey object, with new caps
StartRunSame ==
    /\ pc \in {"stopped", "raised", "interrupted", "aborted"}
    /\ run_no < MaxRuns
    /\ run_no' = run_no + 1
    /\ max_repos' \in Caps
    /\ max_codes' \in Caps
    /\ pc' = "consume"
    /\ feed' = FeedInit
    /\ future_to_job' = [f \in {} |-> RepoJob(NoFeatures)]
    /\ future_state' = [f \in {} |-> "pending"]
    /\ done' = {}
    /\ called' = {}
    /\ current_repos' = <<>>
    /\ completed_repo_count' = 0
    /\ completed_code_count' = 0
    /\ db_open' = TRUE
    /\ code_feature' = IF db_filepath = ":memory:" THEN {} ELSE code_feature
    /\ repo_feature' = IF db_filepath = ":memory:" THEN {} ELSE repo_feature
    /\ repo_metadata' = IF db_filepath = ":memory:" THEN {} ELSE repo_metadata
    /\ cleanup_calls' = [h \in AllHandles |-> 0]
    /\ created' = {}
    /\ obs' = [ObsInit(repo_feature',
                       /\ pc = "stopped"
                       /\ max_repos = NoCap
                       /\ max_codes = NoCap
                       /\ obs.failed = 0)
                  EXCEPT !.prev_cf = UpsertCode(obs.prev_cf, obs.recorded)]
    /\ failures_left' = fail_budget
    /\ UNCHANGED <<script, analyzer_features, max_workers, continue_on_failure,
                   save_code_features, use_saved_features, fail_budget,
                   stream_fault, survey_args, call, db_filepath, pbars>>

NextRetain ==
    \/ ConsumeRepos
    \/ WorkerFinish
    \/ Wait
    \/ Callback
    \/ StartRunSame

SpecRetain == InitRetain /\ [][NextRetain]_vars

\* One run in which a strategy's code_generator raises, with workers that
\* do not fail
InitStrategy ==
    /\ script \in ScriptChoices
    /\ analyzer_features \in AnalyzerFeatureChoices
    /\ max_workers \in {1, 2}
    /\ continue_on_failure \in BOOLEAN
    /\ save_code_features = TRUE
    /\ use_saved_features = FALSE
    /\ max_repos = NoCap
    /\ max_codes = NoCap
    /\ stream_fault \in StreamFaults
    /\ survey_args = ArgsOf(analyzer_features)
    /\ call = NoCall
    /\ db_filepath = ":memory:"
    /\ pbars = AllBars(analyzer_features)
    /\ run_no = 1
    /\ fail_budget = 0
    /\ RunInit({}, {}, {}, FALSE)

SpecStrategy == InitStrategy /\ [][Next]_vars

\* One run of a survey with the single strategy a1, whose unit jobs are all
\* deferred, so that their results arrive in any order
InitOrder ==
    /\ script = [s1 |-> <<Item("repo", "r1", TRUE)>>,
                 s2 |-> <<Item("thunk", "r2", TRUE)>>]
    /\ analyzer_features = [a1 |-> <<"f", "g">>]
    /\ max_workers \in {1, 2}
    /\ continue_on_failure \in BOOLEAN
    /\ save_code_features \in BOOLEAN
    /\ use_saved_features = FALSE
    /\ max_repos = NoCap
    /\ max_codes \in Caps
    /\ stream_fault = NoFault
    /\ survey_args = ArgsOf(analyzer_features)
    /\ call = NoCall
    /\ db_filepath = ":memory:"
    /\ pbars \in PbarChoices(analyzer_features)
    /\ run_no = 1
    /\ fail_budget = MaxFailures
    /\ RunInit({}, {}, {}, FALSE)

SpecOrder == InitOrder /\ [][Next]_vars

\* One run that a KeyboardInterrupt may end between any two statements of
\* the coordinator, those of the finally block of run() included.  A
\* provider or a strategy may fail, in a run with no cap that keeps the
\* unit records and shows every bar.
InitInterrupt ==
    /\ script \in {[s1 |-> <<Item("repo", "r1", TRUE)>>,
                     s2 |-> <<Item("thunk", "r2", TRUE)>>],
                    [s1 |-> <<Item("raise", "-", TRUE)>>,
                     s2 |-> <<Item("repo", "r1", TRUE)>>]}
    /\ analyzer_features = [a1 |-> <<"f", "g">>, a2 |-> <<"h">>]
    /\ stream_fault \in IF script["s1"][1].kind = "raise" THEN {NoFault}
                       ELSE {NoFault, [kind |-> "call", an |-> "a1", at |-> 0],
                             [kind |-> "iter", an |-> "a2", at |-> 1]}
    /\ max_workers \in {1, 2}
    /\ continue_on_failure \in BOOLEAN
    /\ use_saved_features = FALSE
    /\ max_repos = NoCap
    /\ LET faulty == script["s1"][1].kind = "raise" \/ stream_fault # NoFault
       IN  /\ save_code_features \in IF faulty THEN {TRUE} ELSE BOOLEAN
           /\ max_codes \in IF faulty THEN {NoCap} ELSE {NoCap, 1}
           /\ pbars \in IF faulty
                        THEN {get_pbars(NoProgressArg, analyzer_features,
                                        [a1 |-> 2, a2 |-> 2])}
                        ELSE PbarChoices(analyzer_features)
    /\ survey_args = ArgsOf(analyzer_features)
    /\ call = NoCall
    /\ db_filepath = ":memory:"
    /\ run_no = 1
    /\ fail_budget = MaxFailures
    /\ RunInit({}, {}, {}, FALSE)

NextInterrupt ==
    \/ ConsumeRepos
    \/ WorkerFinish
    \/ Wait
    \/ Callback
    \/ Interrupt

SpecInterrupt == InitInterrupt /\ [][NextInterrupt]_vars

(***************************************************************************)
(* Construction of a survey: Analyzer.__init__, CodeSurvey.__init__.       *)
(***************************************************************************)
RECURSIVE get_duplicates_from(_, _, _, _)
\* utils.get_duplicates, the loop from the i-th item on
get_duplicates_from(items, i, seen, duplicates) ==
    IF i > Len(items) THEN duplicates
    ELSE IF items[i] \in seen
    THEN IF \E k \in 1..Len(duplicates) : duplicates[k] = items[i]
         THEN get_duplicates_from(items, i + 1, seen, duplicates)
         ELSE get_duplicates_from(items, i + 1, seen, Append(duplicates, items[i]))
    ELSE get_duplicates_from(items, i + 1, seen \cup {items[i]}, duplicates)

\* get_duplicates that finds nothing
get_duplicates_none(items) == <<>>

\* get_duplicates that passes over None
get_duplicates_skip_none(items) ==
    get_duplicates_from(SelectSeq(items, LAMBDA v : v # NULL), 1, {}, <<>>)

\* utils.get_duplicates
get_duplicates(items) == get_duplicates_from(items, 1, {}, <<>>)

\* Analyzer.__init__: TRUE when it raises ValueError
Analyzer_init_raises(analyzer) ==
    get_duplicates(analyzer.feature_finders) # <<>>

\* CodeSurvey.__init__ and, before it, the construction of its analyzers:
\* exc is "ValueError" or "none"
CodeSurvey_init(args) ==
    LET source_names == args.sources
        analyzer_names == [j \in 1..Len(args.analyzers) |-> args.analyzers[j].name]
    IN  IF \E j \in 1..Len(args.analyzers) : Analyzer_init_raises(args.analyzers[j])
        THEN [exc |-> "ValueError", analyzer_features |-> <<>>]
        ELSE IF get_duplicates(source_names) # <<>>
        THEN [exc |-> "ValueError", analyzer_features |-> <<>>]
        ELSE IF get_duplicates(analyzer_names) # <<>>
        THEN [exc |-> "ValueError", analyzer_features |-> <<>>]
        ELSE [exc |-> "none",
              analyzer_features |->
                  [an \in {analyzer_names[j] : j \in 1..Len(analyzer_names)} |->
                     (CHOOSE a \in {args.analyzers[j] : j \in 1..Len(args.analyzers)} :
                          a.name = an).feature_finders]]

\* Every list of at most n items of the set
ListsUpTo(set, n) == UNION {[1..k -> set] : k \in 0..n}

\* A survey about to be constructed: no runner, an empty store
InitConstruct ==
    /\ survey_args \in
         [sources : ListsUpTo(SourceSet, MaxNames),
          analyzers : ListsUpTo([name : AnalyzerSet,
                                 feature_finders : ListsUpTo({"f", "g"}, MaxNames)],
                                MaxNames)]
    /\ script = [s \in SourceSet |-> <<>>]
    /\ analyzer_features = <<>>
    /\ max_workers = 1
    /\ continue_on_failure = FALSE
    /\ save_code_features = TRUE
    /\ use_saved_features = TRUE
    /\ max_repos = NoCap
    /\ max_codes = NoCap
    /\ stream_fault = NoFault
    /\ call = NoCall
    /\ db_filepath = ":memory:"
    /\ pbars = {}
    /\ pc = "new"
    /\ feed = FeedInit
    /\ future_to_job = [f \in {} |-> RepoJob(NoFeatures)]
    /\ future_state = [f \in {} |-> "pending"]
    /\ done = {}
    /\ called = {}
    /\ current_repos = <<>>
    /\ completed_repo_count = 0
    /\ completed_code_count = 0
    /\ code_feature = {}
    /\ repo_feature = {}
    /\ repo_metadata = {}
    /\ db_open = FALSE
    /\ cleanup_calls = [h \in AllHandles |-> 0]
    /\ created = {}
    /\ obs = ObsInit({}, FALSE)
    /\ run_no = 1
    /\ fail_budget = 0
    /\ failures_left = 0

\* CodeSurvey(sources=..., analyzers=[Analyzer(feature_finders=...), ...])
Construct ==
    /\ pc = "new"
    /\ LET r == CodeSurvey_init(survey_args)
       IN  /\ pc' = IF r.exc = "ValueError" THEN "ValueError" ELSE "constructed"
           /\ analyzer_features' = r.analyzer_features
    /\ UNCHANGED <<script, max_workers, continue_on_failure, save_code_features,
                   use_saved_features, max_repos, max_codes, stream_fault,
                   survey_args, call, db_filepath, pbars, feed, future_to_job,
                   future_state, done, called,
                   current_repos, completed_repo_count, completed_code_count,
                   dbvars, obsvars>>

NextConstruct == Construct

SpecConstruct == InitConstruct /\ [][NextConstruct]_vars

(***************************************************************************)
(* Properties.                                                             *)
(***************************************************************************)
Terminated == pc \in {"stopped", "raised", "interrupted", "aborted"}
RepoJobs == {f \in DOMAIN future_to_job : f.kind = "repo"}
PendingJobs == {f \in DOMAIN future_to_job : future_state[f] = "pending"}
\* The rows of obs.recorded that the aggregate of handle h counts
RecordedFor(h) == CountedRows(obs.recorded, h.src, RepoKey(h))

\* C1 (as stated): at every point of a run the number of pending deferred
\* jobs in future_to_job, repository jobs plus unit jobs, is at most W.
C1_PendingWithinWorkers == Cardinality(PendingJobs) <= max_workers

\* C1 (amended): at every point of a run the number of repository-preparation
\* jobs in future_to_job is at most W; the unit jobs of an admitted repository
\* are all submitted, whatever W is.
C1_RepoJobsWithinWorkers == Cardinality(RepoJobs) <= max_workers

\* C1 witness: W repository jobs are recorded at once, W = 2
C1_Witness == max_workers = 2 /\ Cardinality(RepoJobs) = 2

\* C2: when run() has returned or raised, every repo handle a provider
\* created in the run has had its cleanup invoked exactly once.
C2_CleanupExactlyOnce ==
    Terminated => \A h \in created : cleanup_calls[h] = 1

\* The repositories counted against max_repos: preparation jobs whose
\* callback has not run, repos in current_repos, completed repos; a repo
\* that is counted as completed and still in current_repos, its completion
\* cut short, is one repository
RepoCount ==
    Cardinality(RepoJobs \ called)
        + Cardinality({i \in 1..Len(current_repos) :
                         obs.completions[current_repos[i]] = 0})
        + completed_repo_count

\* A candidate is admitted by consume_repos: a preparation job is recorded,
\* or an immediate repo enters current_repos or is completed on the spot
Admitted ==
    /\ pc = "consume"
    /\ \/ RepoJobs' \ RepoJobs # {}
       \/ Len(current_repos') > Len(current_repos)
       \/ completed_repo_count' > completed_repo_count

\* C3: with max_repos = k, the repositories pending preparation, in flight or
\* completed are at most k at every point, so completed_repo_count <= k when
\* the run ends, and a candidate is admitted only while completed + pending
\* repository jobs + in-flight repositories is below k.
C3_MaxReposEnforced ==
    [][max_repos # NoCap =>
         /\ RepoCount <= max_repos
         /\ RepoCount' <= max_repos
         /\ completed_repo_count' <= max_repos
         /\ Admitted =>
              completed_repo_count + Cardinality(RepoJobs) + Len(current_repos)
                  < max_repos]_vars

\* C3 witness: the run ended at the cap with candidates left in the feed
C3_Witness ==
    /\ pc = "stopped"
    /\ max_repos = 1
    /\ completed_repo_count = 1
    /\ ~feed.closed

\* C4: with max_codes = m, completed_code_count never exceeds m, at most m
\* unit results are persisted, no unit job is submitted once the count has
\* reached m, and once it has, no step writes a unit result or moves the count.
C4_MaxCodesEnforced ==
    [][max_codes # NoCap =>
         /\ completed_code_count' <= max_codes
         /\ obs'.saves <= max_codes
         /\ ~obs'.capsubmit
         /\ completed_code_count >= max_codes =>
              /\ completed_code_count' = completed_code_count
              /\ obs'.saves = obs.saves
              /\ obs'.recorded = obs.recorded]_vars

\* C4 witness: a unit result arrived with the cap reached and was dropped
C4_Witness ==
    /\ max_codes # NoCap
    /\ completed_code_count = max_codes
    /\ obs.discards > 0

\* C5 (as stated): with max_codes = m, no more than m unit analyses are
\* started for a repository.
C5_StartedWithinCap ==
    max_codes # NoCap => \A h \in AllHandles : obs.started[h] <= max_codes

\* C5 (amended): with max_codes = m and a repository for which more than m
\* unit analyses were started, at most m unit results are recorded by the
\* run; the repository is completed once, aggregated from exactly its
\* recorded unit rows, cleaned up once and no longer in flight.
C5_CappedRepoCompleted ==
    (pc = "stopped" /\ max_codes # NoCap) =>
        \A h \in AllHandles :
            obs.started[h] > max_codes =>
                /\ obs.saves <= max_codes
                /\ obs.completions[h] = 1
                /\ obs.cf_agg[h] = RecordedFor(h)
                /\ cleanup_calls[h] = 1
                /\ \A i \in 1..Len(current_repos) : current_repos[i] # h

\* C5 witness: two unit jobs were started under max_codes = 1, one result was
\* recorded, the other dropped
C5_Witness ==
    /\ pc = "stopped"
    /\ max_codes = 1
    /\ obs.saves = 1
    /\ obs.discards > 0
    /\ \E h \in AllHandles : obs.started[h] > 1 /\ obs.cf_agg[h] # {}

\* C6: after a run that ended normally with no cap and no failure, a second
\* run with use_saved_features on starts no unit analysis and leaves the
\* aggregates as they were.
C6_IdempotentResumption ==
    (run_no = 2 /\ obs.prev_clean /\ use_saved_features) =>
        /\ obs.submits = 0
        /\ obs.saves = 0
        /\ pc = "stopped" => repo_feature = obs.rf_start

\* C7: at the end of a run every aggregate that existed when the run started
\* still exists, with code_total_count and code_occurrence_count not lower.
C7_MonotonicAggregates ==
    Terminated =>
        \A r \in obs.rf_start :
            \E r2 \in repo_feature :
                /\ RepoPk(r2) = RepoPk(r)
                /\ r2.ctot >= r.ctot
                /\ r2.cocc >= r.cocc

\* C8: every aggregate row has code_total_count >= code_occurrence_count >= 0.
C8_OccurrenceWithinTotal ==
    \A r \in repo_feature : r.ctot >= r.cocc /\ r.cocc >= 0

\* C9: after aggregation, code_occurrence_count of a (strategy, feature) is
\* the number of the repo's counted unit rows with occurrence_count >= 1.
C9_CodeOccurrenceCount ==
    \A h \in AllHandles :
        obs.completions[h] > 0 =>
            \A r \in repo_feature :
                (r.src = h.src /\ r.key = RepoKey(h)) =>
                    r.cocc = Cardinality({x \in obs.cf_agg[h] :
                                            /\ x.an = r.an
                                            /\ x.feat = r.feat
                                            /\ x.cnt >= 1})

\* C10: after aggregation, every (strategy, feature) with a counted unit row
\* has exactly one aggregate row, with occurrence_count the sum of the counts
\* and code_total_count the number of that pair's counted rows.
C10_AggregatePerStrategyFeature ==
    \A h \in AllHandles :
        obs.completions[h] > 0 =>
            \A x \in obs.cf_agg[h] :
                LET pair == {y \in obs.cf_agg[h] : y.an = x.an /\ y.feat = x.feat}
                    rows == {r \in repo_feature : /\ r.src = h.src
                                                  /\ r.key = RepoKey(h)
                                                  /\ r.an = x.an
                                                  /\ r.feat = x.feat}
                IN  /\ Cardinality(rows) = 1
                    /\ \A r \in rows : /\ r.occ = SumCount(pair)
                                       /\ r.ctot = Cardinality(pair)


\* The unit jobs of handle h among a set of futures
CodeJobsOf(futs, h) == {f \in futs : f.kind = "code" /\ FutHandle(f) = h}
\* Every unit record an undisturbed analysis of handle h writes
AllRowsOf(h) ==
    UNION { { [src |-> h.src, key |-> RepoKey(h), an |-> an,
               unit |-> UnitKeys(RepoKey(h))[u],
               feat |-> analyzer_features[an][i],
               cnt |-> Outcome(RepoKey(h), an, UnitKeys(RepoKey(h))[u],
                               analyzer_features[an][i])]
              : u \in 1..Len(UnitKeys(RepoKey(h))),
                i \in 1..Len(analyzer_features[an]) }
            : an \in DOMAIN analyzer_features }
InCurrent(h) == \E i \in 1..Len(current_repos) : current_repos[i] = h
InCurrentNext(h) == \E i \in 1..Len(current_repos') : current_repos'[i] = h

\* The repositories a failed job belongs to
FailedHandles == {FutHandle(g) : g \in obs.failedjobs}

\* C11: in default mode a unit job of repository A that raises does not stop
\* the run (run() raises for nothing but a progress bar it does not have),
\* and when the uncapped run has ended every admitted repository B none of
\* whose own jobs failed is completed once, with all its unit results
\* recorded and its aggregate taken from exactly its own counted unit records.
C11_FailureIsolation ==
    continue_on_failure =>
        /\ pc = "raised" => obs.keyerror
        /\ (pc = "stopped" /\ max_repos = NoCap /\ max_codes = NoCap) =>
             \A f \in obs.failedjobs :
                 f.kind = "code" =>
                     \A B \in created \ FailedHandles :
                         /\ obs.completions[B] = 1
                         /\ AllRowsOf(B) \subseteq obs.recorded
                         /\ obs.cf_agg[B] = {r \in AllRowsOf(B) : r.cnt # NULL}
                         /\ cleanup_calls[B] = 1

\* C11 witness: a unit job of one repository failed and another repository
\* was completed in the same run
C11_Witness ==
    /\ continue_on_failure
    /\ pc = "stopped"
    /\ max_repos = NoCap /\ max_codes = NoCap
    /\ \E f \in obs.failedjobs :
         /\ f.kind = "code"
         /\ \E B \in created \ FailedHandles :
              obs.completions[B] = 1 /\ obs.cf_agg[B] # {}

\* C12: under either policy, once run() has returned or raised
\* the record of a job whose computation raised is gone from future_to_job.
C12_FailedRecordRemoved ==
    pc \in {"stopped", "raised"} =>
        \A f \in obs.failedjobs : f \notin DOMAIN future_to_job

\* C13: a repository is completed (aggregated, removed from current_repos)
\* only in a step that leaves no unit job of it in future_to_job and after
\* every unit result that came for it has been handled (of the unit analyses
\* started all but the one that next() of a stream of Codes returned when
\* max_codes was found reached); it leaves current_repos in no other way.
C13_CompletionAfterLastJob ==
    [][\A h \in AllHandles :
         /\ obs'.completions[h] > obs.completions[h] =>
              /\ CodeJobsOf(DOMAIN future_to_job', h) = {}
              /\ obs'.started[h] - obs'.handled[h] \in {0, 1}
              /\ obs'.started[h] > obs'.handled[h] =>
                   max_codes # NoCap /\ completed_code_count' >= max_codes
         /\ (InCurrent(h) /\ ~InCurrentNext(h)) =>
              obs'.completions[h] = obs.completions[h] + 1]_vars

\* C13 witness: a repository with two deferred unit jobs was completed
C13_Witness ==
    \E h \in AllHandles :
        /\ obs.completions[h] = 1
        /\ obs.submits >= 2
        /\ obs.handled[h] >= 2
        /\ obs.handled[h] = obs.started[h]

CompletionSteps == <<"aggregate", "count", "cleanup", "remove">>

\* C14: for a completed repository the tracker has persisted the aggregate,
\* incremented completed_repo_count, invoked cleanup and removed the repo
\* from current_repos, in this order and each exactly once.
C14_CompletionOrder ==
    \A h \in AllHandles :
        \/ obs.trace[h] = <<>> /\ obs.completions[h] = 0
        \/ /\ obs.trace[h] = CompletionSteps
           /\ obs.completions[h] = 1
           /\ cleanup_calls[h] = 1
           /\ ~InCurrent(h)

\* C15: when handle_repo runs for a repository and starts no unit analysis
\* for it, the repository is aggregated, counted, cleaned up and out of
\* current_repos when handle_repo has returned.
C15_CompletionWithoutUnits ==
    [][\A h \in AllHandles :
         (obs'.admitted[h] > obs.admitted[h] /\ obs'.started[h] = obs.started[h]) =>
             /\ obs'.completions[h] = obs.completions[h] + 1
             /\ obs'.trace[h] = obs.trace[h] \o CompletionSteps
             /\ completed_repo_count' > completed_repo_count
             /\ cleanup_calls'[h] = cleanup_calls[h] + 1
             /\ ~InCurrentNext(h)]_vars

\* C16: no repository's cleanup is invoked while a worker holds a pending
\* unit job of that repository: a step that invokes a cleanup leaves no unit
\* job of the repository pending and, while the run goes on, none in
\* future_to_job.
C16_NoCleanupWhilePending ==
    [][/\ obs'.hot = {}
       /\ \A h \in AllHandles :
             cleanup_calls'[h] > cleanup_calls[h] =>
                 /\ \A f \in CodeJobsOf(DOMAIN future_state', h) :
                        future_state'[f] # "pending"
                 /\ pc' \in {"consume", "wait", "callbacks"} =>
                        CodeJobsOf(DOMAIN future_to_job', h) = {}]_vars

\* C17: consume_repos hands no candidate to handle_repo and submits no
\* preparation job for it while current_repos holds a repository of the same
\* provider name and key.
C17_NoDuplicateAdmission ==
    [][pc = "consume" =>
         \A h \in AllHandles :
             (\/ obs'.admitted[h] > obs.admitted[h]
              \/ Fut("repo", h, "-", "-") \in DOMAIN future_to_job' \ DOMAIN future_to_job)
             => \A i \in 1..Len(current_repos) :
                    ~(/\ current_repos[i].src = h.src
                      /\ RepoKey(current_repos[i]) = RepoKey(h))]_vars

\* C17 witness: a candidate was drawn while a repo of its provider and key
\* was in current_repos, and was not admitted
C17_Witness ==
    \E h \in AllHandles :
        /\ \E i \in 1..Len(obs.yielded) : obs.yielded[i] = h
        /\ ~InCurrent(h)
        /\ \E i \in 1..Len(current_repos) :
               /\ current_repos[i].src = h.src
               /\ RepoKey(current_repos[i]) = RepoKey(h)
        /\ obs.admitted[h] = 0
        /\ Fut("repo", h, "-", "-") \notin DOMAIN future_to_job

\* The store holds a repo-level record for every requested (strategy,
\* feature) pair of the repository of handle h
FullyAnalyzed(h) ==
    \A an \in DOMAIN analyzer_features :
        \A i \in 1..Len(analyzer_features[an]) :
            \E r \in repo_feature : /\ r.src = h.src
                                    /\ r.key = RepoKey(h)
                                    /\ r.an = an
                                    /\ r.feat = analyzer_features[an][i]

\* C18: with use_saved_features on, drawing a candidate whose requested
\* pairs all have a repo-level record changes neither current_repos nor
\* future_to_job nor the store nor the two counters.
C18_SkipFullyAnalyzed ==
    [][(/\ pc = "consume"
        /\ use_saved_features
        /\ Len(obs'.yielded) > Len(obs.yielded)
        /\ FullyAnalyzed(obs'.yielded[Len(obs'.yielded)])) =>
           /\ UNCHANGED <<future_to_job, future_state, current_repos,
                          completed_repo_count, completed_code_count,
                          code_feature, repo_feature, repo_metadata>>
           /\ pc' = "consume"]_vars

\* C18 witness: a fully analyzed candidate was drawn and not admitted
C18_Witness ==
    /\ use_saved_features
    /\ \E h \in AllHandles :
         /\ \E i \in 1..Len(obs.yielded) : obs.yielded[i] = h
         /\ FullyAnalyzed(h)
         /\ obs.admitted[h] = 0
         /\ ~InCurrent(h)
         /\ Fut("repo", h, "-", "-") \notin DOMAIN future_state

SourceIndex(src) == CHOOSE i \in 1..Len(SourceNames) : SourceNames[i] = src
\* Candidate a comes before candidate b in round-robin order: an earlier
\* turn of its provider, or the same turn of an earlier provider
Before(a, b) ==
    \/ a.idx < b.idx
    \/ a.idx = b.idx /\ SourceIndex(a.src) < SourceIndex(b.src)

\* C19: the candidates come out in strict cyclic order: turn by turn, one per
\* provider and turn, providers in their configured order, none passed over.
C19_RoundRobinOrder ==
    /\ \A i \in 1..(Len(obs.yielded) - 1) : Before(obs.yielded[i], obs.yielded[i + 1])
    /\ \A i \in 1..Len(obs.yielded) :
         \A h \in AllHandles :
             (script[h.src][h.idx].kind # "raise" /\ Before(h, obs.yielded[i])) =>
                 \E j \in 1..(i - 1) : obs.yielded[j] = h

\* C19 witness: three candidates were drawn, from the first, the second and
\* again the first provider
C19_Witness ==
    /\ Len(obs.yielded) >= 3
    /\ obs.yielded[1].src = SourceNames[1]
    /\ obs.yielded[2].src = SourceNames[2]
    /\ obs.yielded[3].src = SourceNames[1]

\* C20: in default mode a provider leaves the rotation only when exhausted
\* and never comes back, a turn on which it raises yields nothing, and when
\* the feed has ended every provider is exhausted and every candidate of
\* every provider, those after a raise too, has been yielded.
C20_FailedProviderStays ==
    [][continue_on_failure =>
         /\ feed'.gens \subseteq feed.gens
         /\ \A s \in SourceSet \ feed'.gens : feed'.pos[s] = Len(script[s])
         /\ \A i \in 1..Len(obs'.yielded) :
                script[obs'.yielded[i].src][obs'.yielded[i].idx].kind # "raise"
         /\ pc' # "raised"
         /\ feed'.closed =>
              /\ feed'.gens = {}
              /\ \A h \in AllHandles :
                     script[h.src][h.idx].kind # "raise" =>
                         \E i \in 1..Len(obs'.yielded) : obs'.yielded[i] = h]_vars

\* C20 witness: a provider raised on its first turn, yielded a candidate on
\* its second, and the feed has ended
C20_Witness ==
    /\ continue_on_failure
    /\ feed.closed
    /\ \E s \in SourceSet :
         /\ Len(script[s]) = 2
         /\ script[s][1].kind = "raise"
         /\ \E i \in 1..Len(obs.yielded) : obs.yielded[i] = Handle(s, 2)

\* The candidate the step drew from the feed, when it drew one
Drew == Len(obs'.yielded) = Len(obs.yielded) + 1
Drawn == obs'.yielded[Len(obs'.yielded)]
\* reached_max_repos() and reached_max_codes() as consume_repos evaluates
\* them, spelled out over the state
MaxReposReached ==
    /\ max_repos # NoCap
    /\ Len(current_repos) + Cardinality(RepoJobs) + completed_repo_count >= max_repos
MaxCodesReached == max_codes # NoCap /\ completed_code_count >= max_codes

\* C21: a candidate is drawn from the feed only while future_to_job holds
\* fewer than max_workers jobs and neither cap is reached, and the drawn
\* candidate is then either skipped, leaving the runner and the store as they
\* were (a duplicate of a repository in progress, or nothing left to
\* analyse), or admitted (handle_repo runs on it, or a RepoJob is recorded
\* for it): no candidate is drawn and then dropped.
C21_DrawnThenSkippedOrAdmitted ==
    [][Len(obs'.yielded) # Len(obs.yielded) =>
         LET h == Drawn
             dup == \E i \in 1..Len(current_repos) :
                        /\ current_repos[i].src = h.src
                        /\ RepoKey(current_repos[i]) = RepoKey(h)
             skipped == /\ dup \/ (use_saved_features /\ FullyAnalyzed(h))
                        /\ UNCHANGED <<future_to_job, future_state, current_repos,
                                       completed_repo_count, completed_code_count,
                                       code_feature, repo_feature, repo_metadata>>
             admitted == \/ obs'.admitted[h] = obs.admitted[h] + 1
                         \/ Fut("repo", h, "-", "-")
                               \in DOMAIN future_to_job' \ DOMAIN future_to_job
         IN  /\ Drew
             /\ pc = "consume"
             /\ Cardinality(DOMAIN future_to_job) < max_workers
             /\ ~MaxReposReached
             /\ ~MaxCodesReached
             /\ skipped # admitted]_vars

\* C21 witness: with a job pending and a worker idle, one candidate was drawn
\* and admitted and another was drawn and skipped
C21_Witness ==
    /\ max_workers = 2
    /\ \E h1, h2 \in AllHandles :
         /\ h1 # h2
         /\ \E i, j \in 1..Len(obs.yielded) : obs.yielded[i] = h1 /\ obs.yielded[j] = h2
         /\ obs.admitted[h1] = 1
         /\ obs.admitted[h2] = 0
         /\ Fut("repo", h2, "-", "-") \notin DOMAIN future_state
         /\ CodeJobsOf(PendingJobs, h1) # {}

\* The strategy of the scenario whose stream holds Codes, not CodeThunks
InlineStrategy == "a2"

\* C22: an immediate Repo goes to handle_repo in the step that drew it and
\* gets no record in future_to_job; an immediate Code goes to handle_code
\* inside handle_repo and gets no record either: when handle_repo has run on
\* a repository, every unit analysis started for it is either a recorded
\* CodeJob or already handled (but the one that next() of a stream of Codes
\* returned when max_codes was found reached, which is dropped), and no
\* record is ever of the inline strategy.
C22_ImmediateHandledInline ==
    [][/\ \A f \in DOMAIN future_to_job' :
             /\ f.kind = "code" => f.an # InlineStrategy
             /\ f.kind = "repo" => script[FutHandle(f).src][FutHandle(f).idx].kind = "thunk"
       /\ \A h \in AllHandles :
             obs'.admitted[h] > obs.admitted[h] =>
                 /\ obs'.started[h]
                        - (Cardinality(CodeJobsOf(DOMAIN future_to_job', h))
                           + obs'.handled[h]) \in {0, 1}
                 /\ obs'.started[h] >
                        Cardinality(CodeJobsOf(DOMAIN future_to_job', h))
                        + obs'.handled[h] => MaxCodesReached'
                 /\ script[h.src][h.idx].kind = "repo" =>
                        pc = "consume" /\ Drew /\ Drawn = h]_vars

\* C22 witness: handle_repo has run on an immediate Repo, results of the
\* inline strategy are handled, and the only records of the repository are
\* CodeJobs of the other strategy
C22_Witness ==
    \E h \in AllHandles :
        /\ script[h.src][h.idx].kind = "repo"
        /\ obs.admitted[h] = 1
        /\ obs.handled[h] >= 1
        /\ obs.started[h] > obs.handled[h]
        /\ Fut("repo", h, "-", "-") \notin DOMAIN future_state
        /\ CodeJobsOf(DOMAIN future_to_job, h) # {}
        /\ \A f \in CodeJobsOf(DOMAIN future_to_job, h) : f.an # InlineStrategy

\* C23: run() leaves its loop by the break exactly when, after
\* consume_repos, future_to_job is empty, which happens with the feed
\* exhausted or a cap reached; with a job recorded it waits instead.
C23_NormalExit ==
    [][/\ (pc # "stopped" /\ pc' = "stopped") =>
             /\ pc = "consume"
             /\ DOMAIN future_to_job' = {}
             /\ feed'.closed \/ MaxReposReached' \/ MaxCodesReached'
       /\ (pc = "consume" /\ pc' = "wait") => DOMAIN future_to_job' # {}
       /\ (/\ pc = "consume"
           /\ DOMAIN future_to_job = {}
           /\ feed.closed \/ MaxReposReached \/ MaxCodesReached) =>
             pc' \in {"stopped", "interrupted"}]_vars

\* C23 witness: the run ended normally on a cap, with the feed not
\* exhausted, after deferred jobs had been recorded and handled
C23_Witness ==
    /\ pc = "stopped"
    /\ ~feed.closed
    /\ DOMAIN future_to_job = {}
    /\ obs.submits >= 1
    /\ completed_repo_count >= 1

\* The steps of the finally block of run(), in the order the claims state
UnwindOrder == <<"cancel", "terminate", "cleanup", "close">>

\* C24: when run() has been left by an error, or by an interrupt raised
\* while the loop ran (between any two statements of a step), its unwind
\* has cancelled every pending job, then stopped the worker pool, then
\* called cleanup on every repository still in current_repos, then closed
\* the store, in this order; before that no step of it has run.  (An
\* interrupt raised inside the unwind cuts it short, in this order; one
\* raised before run() enters its try statement is followed by no unwind.)
C24_UnwindOrder ==
    /\ pc = "aborted" =>
          \E k \in 0..Len(UnwindOrder) : obs.unwind = SubSeq(UnwindOrder, 1, k)
    /\ pc \in {"interrupted", "raised"} =>
          /\ obs.unwind = UnwindOrder
          /\ \A f \in DOMAIN future_state : future_state[f] # "pending"
          /\ \A i \in 1..Len(current_repos) : cleanup_calls[current_repos[i]] >= 1
          /\ ~db_open
    /\ pc \in {"consume", "wait", "callbacks"} => obs.unwind = <<>> /\ db_open

C26_StrategyFailureContinues ==
    continue_on_failure =>
        /\ pc # "raised"
        /\ pc = "stopped" =>
              \A h \in AllHandles :
                  script[h.src][h.idx].kind # "raise" => obs.completions[h] = 1

\* A list holds some item twice
HasRepeat(items) ==
    \E i, j \in 1..Len(items) : i # j /\ items[i] = items[j]
ArgAnalyzerNames ==
    [j \in 1..Len(survey_args.analyzers) |-> survey_args.analyzers[j].name]

\* C27: constructing a survey from two sources of one name, two analyzers
\* of one name, or an analyzer with two feature finders of one name raises
\* ValueError, and only then; nothing is submitted or written by then, and a
\* constructed survey maps each analyzer name to its own feature names.
C27_DuplicateNamesRejected ==
    /\ pc = "new" => analyzer_features = <<>>
    /\ pc \in {"constructed", "ValueError"} =>
          /\ pc = "ValueError" <=>
                \/ HasRepeat(survey_args.sources)
                \/ HasRepeat(ArgAnalyzerNames)
                \/ \E j \in 1..Len(survey_args.analyzers) :
                       HasRepeat(survey_args.analyzers[j].feature_finders)
          /\ DOMAIN future_to_job = {}
          /\ code_feature = {} /\ repo_feature = {} /\ repo_metadata = {}
          /\ ~db_open
          /\ pc = "ValueError" => analyzer_features = <<>>
          /\ pc = "constructed" =>
                /\ DOMAIN analyzer_features =
                       {ArgAnalyzerNames[j] : j \in 1..Len(ArgAnalyzerNames)}
                /\ \A j \in 1..Len(survey_args.analyzers) :
                       analyzer_features[survey_args.analyzers[j].name] =
                           survey_args.analyzers[j].feature_finders

\* C27 witness: construction failed for a survey whose source names and
\* analyzer names are distinct and one of whose analyzers was given the
\* same feature name twice
C27_Witness ==
    /\ pc = "ValueError"
    /\ Len(survey_args.sources) = 2 /\ ~HasRepeat(survey_args.sources)
    /\ Len(survey_args.analyzers) = 2 /\ ~HasRepeat(ArgAnalyzerNames)
    /\ \E j \in 1..2 : HasRepeat(survey_args.analyzers[j].feature_finders)

\* The counts of a set of repo_feature rows, without the analyzer column
AggregateValues(rows) ==
    {[feat |-> r.feat, occ |-> r.occ, cocc |-> r.cocc, ctot |-> r.ctot] : r \in rows}
\* The rows of table repo_feature of the repository of handle h
RepoRows(h) == {r \in repo_feature : r.src = h.src /\ r.key = RepoKey(h)}

\* C28: in runs that never read saved features, a survey that deletes the
\* unit records of a completed repository holds, for every repository it
\* completes, the aggregates a survey that keeps them would hold: those over
\* all unit records written for the repository in this run and the runs
\* before it.
C28_DeletionKeepsAggregates ==
    ~save_code_features =>
        \A h \in AllHandles :
            obs.completions[h] >= 1 =>
                AggregateValues(RepoRows(h)) =
                    AggregateValues(AggregateRows(UpsertCode(obs.prev_cf, obs.recorded),
                                                  h.src, RepoKey(h), <<>>))

\* What the aggregate of handle h is to hold over the unit records rows
ExpectedAggregate(rows) ==
    LET counted == {r \in rows : r.cnt # NULL}
        of(ft) == {r \in counted : r.feat = ft}
    IN  {[feat |-> ft, occ |-> SumCount(of(ft)), cocc |-> SumMaxCount1(of(ft)),
          ctot |-> Cardinality(of(ft))] : ft \in {r.feat : r \in counted}}
\* The unit records of the jobs submitted for handle h: the stream of a
\* strategy is consumed in order, so they are those of its first units
SubmittedRows(h) ==
    {r \in AllRowsOf(h) :
        \E u \in 1..Len(UnitKeys(RepoKey(h))) :
            u <= obs.started[h] /\ UnitKeys(RepoKey(h))[u] = r.unit}
\* The unit records of the first repository admitted when the results
\* arrive in the order the jobs were submitted: its jobs are the first
\* submitted, so all of them, or those of its first max_codes jobs
InOrderRows(h) ==
    IF max_codes = NoCap THEN SubmittedRows(h)
    ELSE {r \in SubmittedRows(h) :
            \E u \in 1..Len(UnitKeys(RepoKey(h))) :
                u <= max_codes /\ UnitKeys(RepoKey(h))[u] = r.unit}

\* C29 as stated: in a run without failure the aggregate of the first
\* repository admitted, once completed, is the one its submitted unit jobs
\* give when results arrive in the order of submission, whatever order they
\* arrive in, with a max_codes cap or without.
C29_OrderInsensitive ==
    (obs.failed = 0 /\ Len(obs.yielded) >= 1) =>
        (obs.completions[obs.yielded[1]] = 1 =>
            AggregateValues(RepoRows(obs.yielded[1])) =
                ExpectedAggregate(InOrderRows(obs.yielded[1])))

\* The unit records of the jobs submitted for handle h that returned a
\* result: those of the jobs whose result() did not raise
ReturnedRows(h) ==
    {r \in SubmittedRows(h) :
        ~\E f \in obs.failedjobs :
            FutHandle(f) = h /\ f.an = r.an /\ f.unit = r.unit}

\* C29: in a run in which the max_codes cap has discarded no result, the
\* aggregate of a completed repository is the sum over the results that its
\* submitted unit jobs returned, in whatever order they completed.
C29_OrderInsensitiveUncapped ==
    \A h \in AllHandles :
        (obs.completions[h] = 1 /\ obs.discards = 0) =>
            AggregateValues(RepoRows(h)) = ExpectedAggregate(ReturnedRows(h))

\* C29 witness: an uncapped run has ended with two repositories completed
\* and their aggregates persisted: one whose two unit jobs both returned a
\* result, and one with a unit job that raised
C29_Witness ==
    /\ max_codes = NoCap
    /\ \E h \in AllHandles :
         /\ obs.completions[h] = 1
         /\ obs.started[h] = 2
         /\ h \notin FailedHandles
         /\ AggregateValues(RepoRows(h)) = ExpectedAggregate(AllRowsOf(h))
         /\ RepoRows(h) # {}
    /\ \E h \in FailedHandles : obs.completions[h] = 1
    /\ pc = "stopped"

\* C30: with neither cap set run() does not return by itself
C30_UncappedNeverReturns ==
    (max_repos = NoCap /\ max_codes = NoCap) => pc # "stopped"

(***************************************************************************)
(* Queries and helpers called directly: the variable call holds the        *)
(* arguments, then the result; the runner stays idle.                      *)
(***************************************************************************)
\* the runner's variables while a query or helper is called directly
CallerIdle ==
    /\ script = [s \in SourceSet |-> <<>>]
    /\ analyzer_features = <<>>
    /\ max_workers = 1
    /\ continue_on_failure = FALSE
    /\ save_code_features = TRUE
    /\ use_saved_features = TRUE
    /\ max_repos = NoCap
    /\ max_codes = NoCap
    /\ stream_fault = NoFault
    /\ survey_args = ArgsOf(analyzer_features)
    /\ db_filepath = "survey.db"
    /\ pbars = {}
    /\ pc = "call"
    /\ feed = FeedInit
    /\ future_to_job = [f \in {} |-> RepoJob(NoFeatures)]
    /\ future_state = [f \in {} |-> "pending"]
    /\ done = {}
    /\ called = {}
    /\ current_repos = <<>>
    /\ completed_repo_count = 0
    /\ completed_code_count = 0
    /\ repo_metadata = {}
    /\ db_open = TRUE
    /\ cleanup_calls = [h \in AllHandles |-> 0]
    /\ created = {}
    /\ obs = ObsInit({}, FALSE)
    /\ run_no = 1
    /\ fail_budget = 0
    /\ failures_left = 0

\* the call returns: only call and pc change
Return(result) ==
    /\ pc = "call"
    /\ pc' = "returned"
    /\ call' = [call EXCEPT !.result = result]
    /\ UNCHANGED <<script, analyzer_features, max_workers, continue_on_failure,
                   save_code_features, use_saved_features, max_repos, max_codes,
                   stream_fault, survey_args, db_filepath, pbars, feed,
                   future_to_job, future_state, done, called, current_repos,
                   completed_repo_count, completed_code_count, dbvars, obsvars>>

\* A stored repo-level record of (source, repo, analyzer, feature)
RepoRow(source_name, repo_key, analyzer_name, feature_name) ==
    [src |-> source_name, key |-> repo_key, an |-> analyzer_name,
     feat |-> feature_name, occ |-> 1, cocc |-> 1, ctot |-> 1]

\* The repo-level records the table may hold when the query is called: any
\* of repository (s1, r1), and one each of another source and another key
RepoRowChoices ==
    {RepoRow("s1", "r1", an, ft) : an \in AnalyzerSet, ft \in {"f", "g"}}
        \cup {RepoRow("s2", "r1", "a1", "f"), RepoRow("s1", "r2", "a1", "f")}

\* The requested analyzer_features: a dict from some analyzers to lists
RequestChoices ==
    UNION {[d -> ListsUpTo({"f", "g"}, MaxNames)] : d \in SUBSET AnalyzerSet \ {{}}}

InitMissing ==
    /\ CallerIdle
    /\ code_feature = {}
    /\ repo_feature \in SUBSET RepoRowChoices
    /\ call \in [fn : {"get_repo_missing_analyzer_features"},
                 source_name : {"s1"}, repo_key : {"r1"},
                 analyzer_features : RequestChoices,
                 result : {"pending"}]

\* db.get_repo_missing_analyzer_features(source_name=..., repo_key=...,
\*                                       analyzer_features=...)
CallMissing ==
    /\ call.fn = "get_repo_missing_analyzer_features"
    /\ Return(get_repo_missing_analyzer_features(
                  repo_feature, call.source_name, call.repo_key,
                  call.analyzer_features))

NextMissing == CallMissing

SpecMissing == InitMissing /\ [][NextMissing]_vars

\* the call of the named query or helper has returned
Returned(fn) == pc = "returned" /\ call.fn = fn

\* C31: get_repo_missing_analyzer_features returns, for each requested
\* strategy, exactly the requested features that have no repo-level record
\* for that (provider, repository, strategy), in the requested order; a
\* strategy with no missing feature is absent, and nothing unrequested is
\* ever in the result.
C31_MissingExactlyUnrecorded ==
    Returned("get_repo_missing_analyzer_features") =>
        LET afs == call.analyzer_features
            recorded(an, ft) ==
                \E r \in repo_feature : /\ r.src = call.source_name
                                        /\ r.key = call.repo_key
                                        /\ r.an = an
                                        /\ r.feat = ft
            want(an) == SelectSeq(afs[an], LAMBDA ft : ~recorded(an, ft))
        IN  /\ DOMAIN call.result \subseteq DOMAIN afs
            /\ \A an \in DOMAIN afs :
                   IF want(an) = <<>> THEN an \notin DOMAIN call.result
                   ELSE /\ an \in DOMAIN call.result
                        /\ call.result[an] = want(an)

\* two strategies requested; one has every feature recorded and is absent,
\* the other misses one of its two features
C31_Witness ==
    /\ Returned("get_repo_missing_analyzer_features")
    /\ DOMAIN call.analyzer_features = AnalyzerSet
    /\ \E an \in AnalyzerSet :
           /\ DOMAIN call.result = {an}
           /\ Len(call.analyzer_features[an]) = 2
           /\ Len(call.result[an]) = 1
    /\ \A an \in AnalyzerSet : Len(call.analyzer_features[an]) > 0

\* A filter argument of a query: None, or a non-empty collection of names
NotGiven == [given |-> FALSE, names |-> {}]
Given(names) == [given |-> TRUE, names |-> names]
FilterChoices(universe) ==
    {NotGiven} \cup {Given(n) : n \in SUBSET universe \ {{}}}

\* A stored unit record
CodeRow(source_name, repo_key, analyzer_name, code_key, feature_name) ==
    [src |-> source_name, key |-> repo_key, an |-> analyzer_name,
     unit |-> code_key, feat |-> feature_name, cnt |-> 1]

\* The unit records the table may hold when the query is called: one record
\* and four that differ from it in one column each
CodeRowChoices ==
    {CodeRow("s1", "r1", "a1", "u1", "f"), CodeRow("s2", "r1", "a1", "u1", "f"),
     CodeRow("s1", "r2", "a1", "u1", "f"), CodeRow("s1", "r1", "a2", "u1", "f"),
     CodeRow("s1", "r1", "a1", "u1", "g")}

\* Database.get_code_features: a SELECT on code_feature.  The conditions on
\* source_name and analyzer_name are columns of CodeFeatureModel; those on
\* repo_key and feature_name are written with columns of RepoFeatureModel,
\* a table the query does not select from, and SQLite rejects the statement
\* (no such column) when the rows are fetched.
db_get_code_features(cf, source_names, repo_keys, analyzer_names, feature_names) ==
    IF repo_keys.given \/ feature_names.given
    THEN [exc |-> "OperationalError", rows |-> {}]
    ELSE [exc |-> "none",
          rows |-> {r \in cf :
                      /\ source_names.given => r.src \in source_names.names
                      /\ analyzer_names.given => r.an \in analyzer_names.names}]

\* CodeSurvey.get_code_features: forwards its three filters to the store
CodeSurvey_get_code_features(cf, source_names, analyzer_names, feature_names) ==
    db_get_code_features(cf, source_names, NotGiven, analyzer_names, feature_names)

InitQuery ==
    /\ CallerIdle
    /\ repo_feature = {}
    /\ code_feature \in SUBSET CodeRowChoices
    /\ call \in {c \in [fn : {"get_code_features"},
                        via : {"Database", "CodeSurvey"},
                        source_names : FilterChoices({"s1", "s2"}),
                        repo_keys : FilterChoices({"r1", "r2"}),
                        analyzer_names : FilterChoices({"a1", "a2"}),
                        feature_names : FilterChoices({"f", "g"}),
                        result : {"pending"}] :
                   c.via = "CodeSurvey" => c.repo_keys = NotGiven}

\* db.get_code_features(source_names=..., repo_keys=..., analyzer_names=...,
\*                      feature_names=...)
CallQuery ==
    /\ call.fn = "get_code_features"
    /\ call.via = "Database"
    /\ Return(db_get_code_features(code_feature, call.source_names, call.repo_keys,
                                   call.analyzer_names, call.feature_names))

\* survey.get_code_features(source_names=..., analyzer_names=...,
\*                          feature_names=...)
CallSurveyQuery ==
    /\ call.fn = "get_code_features"
    /\ call.via = "CodeSurvey"
    /\ Return(CodeSurvey_get_code_features(code_feature, call.source_names,
                                           call.analyzer_names, call.feature_names))

NextQuery == CallQuery \/ CallSurveyQuery

SpecQuery == InitQuery /\ [][NextQuery]_vars

\* the stored unit records that match every given filter of the call
MatchingCodeRows ==
    {r \in code_feature :
       /\ call.source_names.given => r.src \in call.source_names.names
       /\ call.repo_keys.given => r.key \in call.repo_keys.names
       /\ call.analyzer_names.given => r.an \in call.analyzer_names.names
       /\ call.feature_names.given => r.feat \in call.feature_names.names}

\* C32: the unit-result query, called with any combination of source_names,
\* repo_keys, analyzer_names and feature_names, returns exactly the stored
\* unit records that match every given filter.
C32_QueryReturnsMatching ==
    Returned("get_code_features") =>
        /\ call.result.exc = "none"
        /\ call.result.rows = MatchingCodeRows

\* A Feature a finder returns for a unit: {'ignore': True}, or its occurrences
FeatureResult(ignore, occurrences) == [ignore |-> ignore, occurrences |-> occurrences]
FeatureResultChoices ==
    {FeatureResult(TRUE, <<>>)}
        \cup {FeatureResult(FALSE, occ) : occ \in ListsUpTo({"o1", "o2"}, 2)}

RECURSIVE Occurrences(_)
\* [occurrence for result in feature_results for occurrence in result.occurrences]
Occurrences(feature_results) ==
    IF feature_results = <<>> THEN <<>>
    ELSE Head(feature_results).occurrences \o Occurrences(Tail(feature_results))

\* the union that skips as soon as one finder skips
union_feature_finder_any(feature_results) ==
    FeatureResult(\E j \in 1..Len(feature_results) : feature_results[j].ignore,
                  Occurrences(feature_results))

\* _union_feature_finder, given the results of its feature_finders in order
union_feature_finder(feature_results) ==
    FeatureResult(\A j \in 1..Len(feature_results) : feature_results[j].ignore,
                  Occurrences(feature_results))

InitUnion ==
    /\ CallerIdle
    /\ repo_feature = {}
    /\ code_feature = {}
    /\ call \in [fn : {"union_feature_finder"},
                 feature_results : ListsUpTo(FeatureResultChoices, MaxNames),
                 result : {"pending"}]

\* union_feature_finder(name, feature_finders)(code_repr)
CallUnion ==
    /\ call.fn = "union_feature_finder"
    /\ Return(union_feature_finder(call.feature_results))

NextUnion == CallUnion

SpecUnion == InitUnion /\ [][NextUnion]_vars

\* result is the sequence parts[1] \o ... \o parts[n]: it has their total
\* length and holds parts[j] at the offset of the j-1 parts before it
IsConcatenation(result, parts) ==
    LET offset(j) == Len(Occurrences(SubSeq(parts, 1, j - 1)))
    IN  /\ Len(result) = offset(Len(parts) + 1)
        /\ \A j \in 1..Len(parts) :
               SubSeq(result, offset(j) + 1, offset(j + 1)) = parts[j].occurrences

\* C33: a union feature finder over f1..fn returns the outcome skipped if
\* and only if every fi skips the unit, and otherwise returns the
\* concatenation, in finder order, of the occurrence sequences of the fi.
C33_UnionSkipsIffAllSkip ==
    Returned("union_feature_finder") =>
        LET fr == call.feature_results
        IN  /\ call.result.ignore <=> \A j \in 1..Len(fr) : fr[j].ignore
            /\ ~call.result.ignore => IsConcatenation(call.result.occurrences, fr)

\* two finders, the first skips and the second finds two occurrences: the
\* union is not skipped and returns these two
C33_Witness ==
    /\ Returned("union_feature_finder")
    /\ Len(call.feature_results) = 2
    /\ call.feature_results[1].ignore
    /\ ~call.feature_results[2].ignore
    /\ ~call.result.ignore
    /\ call.result.occurrences = <<"o1", "o2">>

(***************************************************************************)
(* A provider that yields the same repository twice as RepoThunks.         *)
(***************************************************************************)
InitDup ==
    /\ script = [s1 |-> <<Item("thunk", "r1", TRUE), Item("thunk", "r1", TRUE)>>,
                 s2 |-> <<>>]
    /\ analyzer_features \in AnalyzerFeatureChoices
    /\ max_workers \in {1, 2}
    /\ continue_on_failure \in BOOLEAN
    /\ save_code_features = TRUE
    /\ use_saved_features = FALSE
    /\ max_repos = NoCap
    /\ max_codes \in Caps
    /\ stream_fault = NoFault
    /\ survey_args = ArgsOf(analyzer_features)
    /\ call = NoCall
    /\ db_filepath = ":memory:"
    /\ pbars = AllBars(analyzer_features)
    /\ run_no = 1
    /\ fail_budget = MaxFailures
    /\ RunInit({}, {}, {}, FALSE)

SpecDup == InitDup /\ [][Next]_vars

\* C34: at every point the in-flight set holds at most one repository per
\* (provider name, repository key), also when a provider yields the same key
\* more than once as deferred preparation jobs pending at the same time.
C34_OneInFlightPerKey ==
    \A i, j \in 1..Len(current_repos) :
        (/\ current_repos[i].src = current_repos[j].src
         /\ RepoKey(current_repos[i]) = RepoKey(current_repos[j])) => i = j

RECURSIVE EnteredCount(_)
\* how many times a handle of the set entered current_repos during the run
EnteredCount(handles) ==
    IF handles = {} THEN 0
    ELSE LET h == CHOOSE x \in handles : TRUE
         IN  obs.admitted[h] + EnteredCount(handles \ {h})

\* C35: when the run loop exits normally, the in-flight set is empty and
\* completed_repo_count equals the number of repository handles that entered
\* the in-flight set during the run.
C35_NormalExitAllCompleted ==
    pc = "stopped" =>
        /\ current_repos = <<>>
        /\ completed_repo_count = EnteredCount(AllHandles)

\* the run ended normally after two repositories entered current_repos, one
\* of them through a deferred preparation job, and both were completed
C35_Witness ==
    /\ pc = "stopped"
    /\ EnteredCount(AllHandles) = 2
    /\ completed_repo_count = 2
    /\ \E h \in AllHandles :
           obs.admitted[h] = 1 /\ script[h.src][h.idx].kind = "thunk"

(***************************************************************************)
(* A run under the default failure policy that nothing interrupts: the     *)
(* thread of run() keeps taking its next step, and every job submitted to  *)
(* the pool finishes, by returning or by raising.                          *)
(***************************************************************************)
InitLive ==
    /\ script \in ScriptChoices
    /\ analyzer_features \in AnalyzerFeatureChoices
    /\ max_workers \in {1, 2}
    /\ continue_on_failure = TRUE
    /\ save_code_features = TRUE
    /\ use_saved_features = FALSE
    /\ max_repos \in {NoCap, 1}
    /\ max_codes \in {NoCap, 1}
    /\ stream_fault \in {NoFault} \cup StreamFaults
    /\ survey_args = ArgsOf(analyzer_features)
    /\ call = NoCall
    /\ db_filepath = ":memory:"
    /\ pbars = AllBars(analyzer_features)
    /\ run_no = 1
    /\ fail_budget = MaxFailures
    /\ RunInit({}, {}, {}, FALSE)

\* the steps of the thread that executes run()
Coordinator == ConsumeRepos \/ Wait \/ Callback

NextLive == Coordinator \/ WorkerFinish

\* The thread of run() can take a step: it is in consume_repos or in the
\* callback loop, or wait() has a finished future to return
CoordinatorEnabled ==
    \/ pc \in {"consume", "callbacks"}
    \/ pc = "wait" /\ \E f \in DOMAIN future_to_job : future_state[f] # "pending"

\* What every step of the thread of run() changes, and no step of a worker
coordvars == <<pc, feed, called>>

\* A step of the thread of run(), told by its effect: it moves to another
\* position, draws from the feed, or marks a callback as run
CoordinatorStep ==
    /\ CoordinatorEnabled
    /\ \/ \E p \in {"consume", "wait", "callbacks", "stopped", "raised"} \ {pc} :
             pc' = p /\ UNCHANGED <<feed, called>>
       \/ feed' # feed
       \/ called' # called

\* The thread of run() is not suspended for ever, and every job handed to
\* the pool finishes
SpecLive ==
    /\ InitLive
    /\ [][NextLive]_vars
    /\ WF_coordvars(CoordinatorStep)
    /\ WF_vars(WorkerFinish)

\* C36: if every provider is finite, every submitted deferred job eventually
\* finishes and the failure policy is the default one, the run loop
\* eventually terminates, with every admitted repository completed.
C36_RunTerminatesCompleted ==
    <>(/\ pc = "stopped"
       /\ current_repos = <<>>
       /\ \A h \in AllHandles : obs.completions[h] = obs.admitted[h])

\* The store held, when this run began, an aggregate of the repository of
\* handle h that covers only some of its units
PartlyAggregated(h) ==
    LET before == {r \in obs.rf_start : r.src = h.src /\ r.key = RepoKey(h)}
    IN  /\ before # {}
        /\ \E r \in before :
               \E e \in ExpectedAggregate(AllRowsOf(h)) :
                   e.feat = r.feat /\ r.ctot < e.ctot

\* C37: a repository that was aggregated after an early stop (max_codes was
\* reached before all of its units were recorded) is resumed by a later
\* uncapped run against the same store with use_saved_features on: when that
\* run has ended its aggregate covers all of its units.
C37_ResumedAfterEarlyStop ==
    (/\ run_no >= 2
     /\ pc = "stopped"
     /\ use_saved_features
     /\ max_repos = NoCap
     /\ max_codes = NoCap
     /\ analyzer_features = [a1 |-> <<"f", "g">>, a2 |-> <<"h">>]) =>
        \A h \in AllHandles :
            PartlyAggregated(h) =>
                AggregateValues(RepoRows(h)) = ExpectedAggregate(AllRowsOf(h))

(***************************************************************************)
(* The helpers of codesurvey/utils.py, called directly.                    *)
(***************************************************************************)
\* The values of a list given to get_duplicates; NULL stands for None
ItemValues == {1, 2, NULL}

InitDuplicates ==
    /\ CallerIdle
    /\ repo_feature = {}
    /\ code_feature = {}
    /\ call \in [fn : {"get_duplicates"},
                 items : ListsUpTo(ItemValues, MaxItems),
                 result : {"pending"}]

\* get_duplicates(items)
CallDuplicates ==
    /\ call.fn = "get_duplicates"
    /\ Return(get_duplicates(call.items))

NextDuplicates == CallDuplicates

SpecDuplicates == InitDuplicates /\ [][NextDuplicates]_vars

\* The positions of the value v in items
PositionsOf(items, v) == {p \in 1..Len(items) : items[p] = v}
\* The position of the second occurrence of v, which occurs twice at least
SecondPosition(items, v) ==
    CHOOSE p \in PositionsOf(items, v) :
        Cardinality({q \in PositionsOf(items, v) : q < p}) = 1

\* C38: get_duplicates(items) returns each value that occurs more than once
\* in items exactly once, ordered by the position of its second occurrence,
\* and returns the empty list when all items are distinct; None is treated
\* as an ordinary value.
C38_DuplicatesBySecondOccurrence ==
    Returned("get_duplicates") =>
        LET items == call.items
            dups == call.result
            repeated == {v \in ItemValues : Cardinality(PositionsOf(items, v)) > 1}
        IN  /\ {dups[k] : k \in 1..Len(dups)} = repeated
            /\ Len(dups) = Cardinality(repeated)
            /\ \A j, k \in 1..Len(dups) :
                   j < k => SecondPosition(items, dups[j]) < SecondPosition(items, dups[k])
            /\ repeated = {} => dups = <<>>

\* None and another value both occur twice, the other value first but None
\* a second time before it: the result is <<None, value>>
C38_Witness ==
    /\ Returned("get_duplicates")
    /\ Len(call.items) = 4
    /\ call.items[1] = 1
    /\ call.items[2] = NULL
    /\ call.items[3] = NULL
    /\ call.items[4] = 1
    /\ call.result = <<NULL, 1>>

\* A value held by a dict: a string, given by its characters; a list, a
\* tuple or a set of strings, given by its elements; an int; or a nested
\* dict, given by its items (key, value) in insertion order. A key is a string
Leaf(kind, v) == [kind |-> kind, v |-> v, items |-> <<>>]
Dict(items) == [kind |-> "dict", v |-> <<>>, items |-> items]

\* The keys of the dicts
KeySet == {<<"a">>, <<"b">>}

\* The orders in which a dict with the given keys was built
Orders(keys) ==
    {o \in [1..Cardinality(keys) -> keys] :
        \A i, j \in 1..Cardinality(keys) : i # j => o[i] # o[j]}

\* The dicts over KeySet with the given values, in every insertion order
DictsOf(values) ==
    UNION {{[i \in 1..Len(o) |-> <<o[i], f[o[i]]>>]
            : o \in Orders(d), f \in [d -> values]}
           : d \in SUBSET KeySet}

\* The dicts given as dict_a, built in one order (the loop of
\* recursive_update runs over dict_b only).  Their values other than dicts
\* are a string without a key in it, one with the key "a" in it, a list and
\* a set that hold one key, a tuple that holds both, and an int; their
\* nested dicts hold the two strings and the list
DictsA ==
    LET values == {Leaf("str", <<"I">>), Leaf("str", <<"x", "a">>),
                   Leaf("list", << <<"a">> >>),
                   Leaf("tuple", << <<"a">>, <<"b">> >>),
                   Leaf("set", << <<"b">> >>), Leaf("int", <<>>)}
        inner_values == {Leaf("str", <<"I">>), Leaf("str", <<"x", "a">>),
                         Leaf("list", << <<"a">> >>)}
        first(items) == Len(items) = 2 => items[1][1] = <<"a">>
        inner == {x \in DictsOf(inner_values) : first(x)}
    IN  {x \in DictsOf(values \cup {Dict(y) : y \in inner}) : first(x)}

\* The dicts given as dict_b, three levels deep and in every insertion
\* order: their values other than dicts are the string "i", their innermost
\* dicts are empty or hold the key "a"
DictsB ==
    LET values == {Leaf("str", <<"i">>)}
        innermost == {Dict(<<>>), Dict(<< <<<<"a">>, Leaf("str", <<"i">>)>> >>)}
        inner == DictsOf(values \cup innermost)
    IN  DictsOf(values \cup {Dict(x) : x \in inner})

\* dict.keys()
Keys(items) == {items[i][1] : i \in DOMAIN items}

\* dict[key], for a key of the dict
Get(items, key) == items[CHOOSE i \in DOMAIN items : items[i][1] = key][2]

\* dict[key] = value: a new key is added last, the value of an old key is
\* replaced where it stands
SetItem(items, key, value) ==
    IF key \in Keys(items)
    THEN [i \in DOMAIN items |->
            IF items[i][1] = key THEN <<key, value>> ELSE items[i]]
    ELSE Append(items, <<key, value>>)

\* key in value, for a value that is iterable: a substring of a string, an
\* element of a list, a tuple or a set, a key of a dict
Contains(value, key) ==
    CASE value.kind = "str" ->
             \E i \in 0..(Len(value.v) - Len(key)) :
                 SubSeq(value.v, i + 1, i + Len(key)) = key
      [] value.kind \in {"list", "tuple", "set"} ->
             \E i \in DOMAIN value.v : value.v[i] = key
      [] value.kind = "dict" -> key \in Keys(value.items)

RECURSIVE recursive_update_from(_, _, _)
\* utils.recursive_update, the loop from the i-th item of dict_b on, for a
\* first argument that is a dict or (in a nested call) whatever value
\* dict_a holds under the key; the first argument as it stands when the
\* loop ends or raises
recursive_update_from(value_a, dict_b, i) ==
    IF i > Len(dict_b) THEN [exc |-> "none", value |-> value_a]
    ELSE LET key == dict_b[i][1]
             b_value == dict_b[i][2]
         IN  IF value_a.kind = "int"
             THEN \* `key not in dict_a`: an int is not iterable
                  [exc |-> "TypeError", value |-> value_a]
             ELSE IF value_a.kind # "dict"
             THEN IF ~Contains(value_a, key)
                  THEN \* dict_a[key] = b_value: a string, a tuple and a set
                       \* have no item assignment, a list no string index
                       [exc |-> "TypeError", value |-> value_a]
                  ELSE IF b_value.kind = "dict"
                  THEN \* dict_a[key]: a string, a list and a tuple are not
                       \* indexed by a string, a set is not indexed at all
                       [exc |-> "TypeError", value |-> value_a]
                  ELSE recursive_update_from(value_a, dict_b, i + 1)
             ELSE IF ~Contains(value_a, key)
             THEN \* dict_a[key] = b_value
                  recursive_update_from(
                      Dict(SetItem(value_a.items, key, b_value)), dict_b, i + 1)
             ELSE IF b_value.kind = "dict"
             THEN LET r == recursive_update_from(Get(value_a.items, key),
                                                 b_value.items, 1)
                      a1 == Dict(SetItem(value_a.items, key, r.value))
                  IN  IF r.exc # "none" THEN [exc |-> r.exc, value |-> a1]
                      ELSE recursive_update_from(a1, dict_b, i + 1)
             ELSE recursive_update_from(value_a, dict_b, i + 1)

\* utils.recursive_update, called with two dicts
recursive_update(dict_a, dict_b) ==
    LET r == recursive_update_from(Dict(dict_a), dict_b, 1)
    IN  [exc |-> r.exc, dict |-> r.value.items]

InitUpdate ==
    /\ CallerIdle
    /\ repo_feature = {}
    /\ code_feature = {}
    /\ call \in [fn : {"recursive_update"},
                 dict_a : DictsA,
                 dict_b : DictsB,
                 result : {"pending"}]

\* recursive_update(dict_a, dict_b)
CallUpdate ==
    /\ call.fn = "recursive_update"
    /\ Return(recursive_update(call.dict_a, call.dict_b))

NextUpdate == CallUpdate

SpecUpdate == InitUpdate /\ [][NextUpdate]_vars

RECURSIVE SameValue(_, _)
\* the values x and y are equal; two dicts are equal when they hold the same
\* keys with equal values, in whatever order they were added
SameValue(x, y) ==
    /\ x.kind = y.kind
    /\ IF x.kind = "dict"
       THEN /\ Keys(x.items) = Keys(y.items)
            /\ \A k \in Keys(x.items) :
                   SameValue(Get(x.items, k), Get(y.items, k))
       ELSE x.v = y.v

RECURSIVE Merged(_, _, _)
\* r is a with the keys of b it lacked added, merged likewise where both
\* hold a dict, and otherwise as it was
Merged(r, a, b) ==
    /\ Keys(r) = Keys(a) \cup Keys(b)
    /\ \A k \in Keys(b) \ Keys(a) : SameValue(Get(r, k), Get(b, k))
    /\ \A k \in Keys(a) :
           IF k \in Keys(b) /\ Get(a, k).kind = "dict" /\ Get(b, k).kind = "dict"
           THEN /\ Get(r, k).kind = "dict"
                /\ Merged(Get(r, k).items, Get(a, k).items, Get(b, k).items)
           ELSE SameValue(Get(r, k), Get(a, k))

\* C39: recursive_update(a, b) adds to a every key of b that a lacks,
\* recurses into a[key] when b's value for an existing key is a dict, and
\* never overwrites a value already present in a; updating with an empty
\* dict leaves a unchanged.
C39_UpdateAddsEveryKey ==
    Returned("recursive_update") =>
        /\ call.result.exc = "none"
        /\ Merged(call.result.dict, call.dict_a, call.dict_b)
        /\ call.dict_b = <<>> => call.result.dict = call.dict_a

=============================================================================
